---- MODULE Spec2Model ----
(***************************************************************************)
(* Model of the monitor coordination core (src/src/mon/Monitor.cc): the    *)
(* lifecycle state machine, the probe/election orchestration and the       *)
(* three-role store synchronisation, for a small cluster of monitors that  *)
(* exchange MMonProbe / MMonSync messages over ordered connections.        *)
(*                                                                         *)
(* Every monitor's fields live in the record mon[m]; a handler of the      *)
(* source is an operator from that record (and the message) to the record  *)
(* after the handler returned, with the messages it sent collected in the  *)
(* field out. An action applies one handler to one monitor and puts the    *)
(* messages on the wire.                                                   *)
(***************************************************************************)
EXTENDS Integers, Sequences, FiniteSets, TLC

\* ---------------------------------------------------------------- bounds
NMons == 3
NKeys == 3
MaxChan == 2
MaxEvents == 3
MaxCount == 2
NClients == 2
MaxMsgs == 3
MaxTid == 2
\* the highest epoch of a peer map
MaxEpoch == 2

\* the keys a chunk carries, and the configuration the core reads
\* (g_conf->paxos_max_join_drift, g_conf->mon_sync_max_retries), set small
ChunkKeys == 2
paxos_max_join_drift == 1
mon_sync_max_retries == 2
\* the ticks a message stays recent: g_conf->mon_lease over
\* g_conf->mon_tick_interval
LeaseTicks == 1

Mons == 0 .. (NMons - 1)
\* the default entity_inst_t: the address of no monitor
Blank == -1
Entities == Mons \cup {Blank}
\* the clients: their addresses follow those of the monitors
Clients == NMons .. (NMons + NClients - 1)
Conns == Mons \cup Clients
Keys == 1 .. NKeys
KeyFirstCommitted == NKeys - 1
KeyLastCommitted == NKeys

OP_START == 1
OP_START_REPLY == 2
OP_HEARTBEAT == 3
OP_HEARTBEAT_REPLY == 4
OP_FINISH == 5
OP_START_CHUNKS == 6
OP_CHUNK == 7
OP_CHUNK_REPLY == 8
\* the two ops Monitor::handle_sync dispatches after OP_CHUNK_REPLY, and
\* the ops of MMonProbe, numbered apart from those of MMonSync
OP_FINISH_REPLY == 9
OP_ABORT == 10
OP_PROBE == 21
OP_REPLY == 22
\* the message types Monitor::_ms_dispatch switches on that the model
\* follows: an auth request, a command, a request for a service (the log),
\* and the two of the router; the reply to a request has the type after it
CEPH_MSG_AUTH == 17
MSG_FORWARD == 46
MSG_ROUTE == 47
MSG_MON_COMMAND == 50
MSG_LOG == 68

MSG_MON_JOIN == 65
Ack(op) == op + 1

FLAG_LAST == "LAST"
FLAG_RETRY == "RETRY"
FLAG_REPLY_TO == "REPLY_TO"

STATE_PROBING == "probing"
STATE_SYNCHRONIZING == "synchronizing"
STATE_ELECTING == "electing"
STATE_LEADER == "leader"
STATE_PEON == "peon"
STATE_SHUTDOWN == "shutdown"

SYNC_ROLE_NONE == {}
SYNC_ROLE_LEADER == {"LEADER"}
SYNC_ROLE_PROVIDER == {"PROVIDER"}
SYNC_ROLE_REQUESTER == {"REQUESTER"}

SYNC_STATE_NONE == "NONE"
SYNC_STATE_START == "START"
SYNC_STATE_CHUNKS == "CHUNKS"
SYNC_STATE_STOP == "STOP"

VARIABLES mon, net, sent, events

vars == <<mon, net, sent, events>>

\* ------------------------------------------------------------- utilities
Min(S) == CHOOSE x \in S : \A y \in S : x <= y

EmptyData == [k \in Keys |-> 0]

NoMonMap == [epoch |-> 0, members |-> {}]

\* a store holding nothing under the sync targets and no mon_sync marker
EmptyStore == [in_sync |-> FALSE, force_sync |-> FALSE, data |-> EmptyData]

NullLeader == [set |-> FALSE, entity |-> Blank, timeout |-> "none"]

NullProvider == [set |-> FALSE, entity |-> Blank, timeout |-> "none",
                 attempts |-> 0, last_received_key |-> 0]

NullSyncEntity == [set |-> FALSE, timeout |-> FALSE, synchronizer |-> FALSE,
                   cursor |-> 0, last_received_key |-> 0]

\* the SyncEntity created by get_sync_entity(entity, mon)
get_sync_entity_leader(e) == [NullLeader EXCEPT !.set = TRUE, !.entity = e]

get_sync_entity_provider(e) == [NullProvider EXCEPT !.set = TRUE, !.entity = e]

\* the MMonSync(op) constructor: no flags, no keys, an empty chunk
MMonSync(op) ==
  [op |-> op, src |-> Blank, flags |-> {}, last_key |-> 0,
   chunk_bl |-> EmptyData, reply_to |-> Blank,
   has_ever_joined |-> FALSE, quorum |-> {}, monmap |-> NoMonMap,
   paxos_first_version |-> 0, paxos_last_version |-> 0]

\* the MMonJoin(fsid, name, addr) constructor: the sender asks to be put
\* in the map
MMonJoin == MMonSync(MSG_MON_JOIN)

\* the MMonProbe(fsid, op, name, has_ever_joined) constructor
MMonProbe(op, has_ever_joined) ==
  [MMonSync(op) EXCEPT !.has_ever_joined = has_ever_joined]

\* MMonSync::encode_payload followed by decode_payload: op, flags, version,
\* chunk_bl, first_key and last_key travel; reply_to is not in the payload
\* and reads back as the default entity
decode_payload(m) == [m EXCEPT !.reply_to = Blank]

\* messenger->send_message(msg, dst), collected until the handler returns
send_message(s, msg, dst) ==
  [s EXCEPT !.out = Append(@, [dst |-> dst, msg |-> [msg EXCEPT !.src = s.id]])]

\* a failed assert() ends the process where it stands
assert_fail(s, why) == [s EXCEPT !.failed = why]

\* ------------------------------------------------ peer map (MonMap)
\* monmap->get_rank(addr): position of the address in the ordered member
\* list, -1 when the address is not a member
get_rank(monmap, addr) ==
  IF addr \in monmap.members
    THEN Cardinality({a \in monmap.members : a < addr})
    ELSE -1

\* monmap->get_inst(rank): the member that holds the rank
get_inst(monmap, rank) ==
  IF \E a \in monmap.members : get_rank(monmap, a) = rank
    THEN CHOOSE a \in monmap.members : get_rank(monmap, a) = rank
    ELSE Blank

\* --------------------------------------------- Log (Paxos) and Store
\* paxos->trim_disable()
trim_disable(s) ==
  [s EXCEPT !.trim_disabled = TRUE,
            !.n_trim_disable = IF @ < MaxCount THEN @ + 1 ELSE @]

\* paxos->trim_enable()
trim_enable(s) ==
  [s EXCEPT !.trim_disabled = FALSE,
            !.n_trim_enable = IF @ < MaxCount THEN @ + 1 ELSE @]

\* paxos->is_trim_disabled()
is_trim_disabled(s) == s.trim_disabled

\* paxos->get_version() and paxos->get_first_committed(): the versions
\* the Log holds in memory
get_version(s) == s.last_committed

get_first_committed(s) == s.first_committed

\* paxos->init(): the Log reads its versions back from the store
paxos_init(s) ==
  [s EXCEPT !.first_committed = s.store.data[KeyFirstCommitted],
            !.last_committed = s.store.data[KeyLastCommitted]]

\* store->clear(targets) with targets = get_sync_targets_names() + mon_sync:
\* every sync-target prefix and the whole mon_sync prefix are emptied
store_clear(s) == [s EXCEPT !.store = EmptyStore]

\* store->apply_transaction(tx) for a chunk's transaction: each key the
\* chunk carries is put with the chunk's value
apply_transaction(s, bl) ==
  [s EXCEPT !.store.data = [k \in Keys |-> IF bl[k] # 0 THEN bl[k] ELSE @[k]]]

\* the keys a store holds after the key last
keys_after(data, last) == {k \in Keys : k > last /\ data[k] # 0}

\* Synchronizer::has_next_chunk for a cursor that stands after key last
has_next_chunk(data, last) == keys_after(data, last) # {}

\* the keys of the next chunk: the ChunkKeys smallest keys after last
chunk_keys(data, last) ==
  {k \in keys_after(data, last) :
     Cardinality({j \in keys_after(data, last) : j < k}) < ChunkKeys}

\* Synchronizer::get_chunk: the transaction that puts the next chunk's keys
get_chunk(data, last) ==
  [k \in Keys |-> IF k \in chunk_keys(data, last) THEN data[k] ELSE 0]

\* Synchronizer::get_last_key: the last key of the chunk just produced
get_last_key(data, last) ==
  CHOOSE k \in chunk_keys(data, last) : \A j \in chunk_keys(data, last) : j <= k

\* ---------------------------------------------------------- lifecycle
is_leader(s) == s.state = STATE_LEADER

is_probing(s) == s.state = STATE_PROBING

is_synchronizing(s) == s.state = STATE_SYNCHRONIZING

is_electing(s) == s.state = STATE_ELECTING

cancel_probe_timeout(s) == [s EXCEPT !.probe_timeout_event = FALSE]

reset_probe_timeout(s) == [cancel_probe_timeout(s) EXCEPT !.probe_timeout_event = TRUE]

\* Monitor::reset: forget the quorum; paxos->restart() changes no field here
reset(s) ==
  [s EXCEPT !.exited_quorum = IF s.quorum # {} THEN TRUE ELSE @,
            !.quorum = {}, !.outside_quorum = {}]

\* Monitor::reset_sync: drop every trim timeout, every provider-side
\* entity (timers cancelled), the per-entity states, both requester-side
\* entities, the phase and the role. trim_enable_timer is left alone.
reset_sync(s) ==
  [s EXCEPT !.trim_timeouts = {},
            !.sync_entities = [e \in Entities |-> NullSyncEntity],
            !.sync_entities_states = [e \in Entities |-> "absent"],
            !.sync_leader = NullLeader,
            !.sync_provider = NullProvider,
            !.sync_state = SYNC_STATE_NONE,
            !.sync_role = SYNC_ROLE_NONE]

RECURSIVE send_each(_, _, _)
\* send msg to every entity of dsts, in the order of the map's keys
send_each(s, msg, dsts) ==
  IF dsts = {} THEN s
  ELSE send_each(send_message(s, msg, Min(dsts)), msg, dsts \ {Min(dsts)})

\* ------------------------------------------- sessions and routing
\* the session a connection has before its first message
NoSession == [priv |-> "none", routed_request_tids |-> {}]

\* a request of a client: age counts the ticks it spent on the waitlist,
\* proxy_con and proxy_tid stand for the session of the connection that
\* handle_forward makes up for a forwarded request
Request(src, op, session_mon) ==
  [op |-> op, src |-> src, flags |-> {}, session_mon |-> session_mon,
   age |-> 0, proxy_con |-> Blank, proxy_tid |-> 0]

\* encode_message(req) followed by decode_message: the request without
\* its connection and its receive stamp
encode_message(req) == [req EXCEPT !.age = 0, !.proxy_con = Blank, !.proxy_tid = 0]

\* new MForward(tid, req, caps), client taken from the request's source
MForward(tid, req, client) ==
  [op |-> MSG_FORWARD, src |-> Blank, flags |-> {}, tid |-> tid,
   client |-> client, msg |-> encode_message(req)]

\* new MRoute(tid, reply)
MRoute(tid, reply) ==
  [op |-> MSG_ROUTE, src |-> Blank, flags |-> {}, session_mon_tid |-> tid,
   msg |-> reply, dest |-> Blank]

\* the reply a handler or a service makes for a request
Reply(req) == [op |-> Ack(req.op), src |-> Blank, flags |-> {}]

\* the request came over a connection made up by handle_forward
is_proxied(req) == req.proxy_con # Blank

\* rr->session, the session of the request's connection: inst is its
\* peer, proxy tells the session handle_forward made up, closed is the
\* flag of the session object
session_ref(s, req) ==
  [inst |-> req.src, proxy |-> is_proxied(req), closed |-> FALSE]

\* the request's connection has a session that is not closed
has_open_session(s, req) ==
  is_proxied(req) \/ s.sessions[req.src].priv = "open"

\* the tid of the entry was put in the routed_request_tids of its session
note_tid(s, rr) ==
  IF ~rr.session.proxy /\ ~rr.session.closed
    THEN [s EXCEPT !.sessions[rr.session.inst].routed_request_tids = @ \cup {rr.tid}]
    ELSE s

\* forward_request_leader with a tid that stays where it is
forward_request_leader_same_tid(s, req) ==
  IF req.session_mon >= 0 THEN s
  ELSE IF has_open_session(s, req)
    THEN LET rr == [tid |-> s.routed_request_tid, client |-> req.src,
                    session |-> session_ref(s, req),
                    request_bl |-> encode_message(req)]
             s1 == [s EXCEPT !.routed_requests =
                               {x \in @ : x.tid # rr.tid} \cup {rr}]
         IN send_message(note_tid(s1, rr), MForward(rr.tid, req, req.src),
                         get_inst(s.monmap, s.leader))
  ELSE s

\* Monitor::forward_request_leader
forward_request_leader(s, req) ==
  IF req.session_mon >= 0 THEN s
  ELSE IF has_open_session(s, req)
    THEN LET rr == [tid |-> s.routed_request_tid + 1, client |-> req.src,
                    session |-> session_ref(s, req),
                    request_bl |-> encode_message(req)]
             s1 == [s EXCEPT !.routed_request_tid = rr.tid,
                             !.routed_requests =
                               {x \in @ : x.tid # rr.tid} \cup {rr}]
         IN send_message(note_tid(s1, rr), MForward(rr.tid, req, req.src),
                         get_inst(s.monmap, s.leader))
  ELSE s

\* Monitor::send_reply
send_reply(s, req, reply) ==
  IF is_proxied(req)
    THEN send_message(s, MRoute(req.proxy_tid, reply), req.proxy_con)
  ELSE IF s.sessions[req.src].priv = "none" THEN s
  ELSE send_message(s, reply, req.src)

\* handle_route that passes the reply on and keeps the entry
handle_route_keeps_entry(s, m) ==
  IF m.session_mon_tid # 0
    THEN IF \E rr \in s.routed_requests : rr.tid = m.session_mon_tid
      THEN LET rr == CHOOSE x \in s.routed_requests : x.tid = m.session_mon_tid
           IN note_tid(send_message(s, m.msg, rr.session.inst), rr)
      ELSE s
  ELSE send_message(s, m.msg, m.dest)

\* Monitor::handle_route: the caps of a peer monitor's session allow it
handle_route(s, m) ==
  IF m.session_mon_tid # 0
    THEN IF \E rr \in s.routed_requests : rr.tid = m.session_mon_tid
      THEN LET rr == CHOOSE x \in s.routed_requests : x.tid = m.session_mon_tid
               s1 == send_message(s, m.msg, rr.session.inst)
           IN note_tid([s1 EXCEPT !.routed_requests = @ \ {rr}], rr)
      ELSE s
  ELSE send_message(s, m.msg, m.dest)

RECURSIVE resend_from(_, _)
\* the loop of resend_routed_requests over the entries rrs, by tid
resend_from(s, rrs) ==
  IF rrs = {} THEN s
  ELSE LET rr == CHOOSE x \in rrs : \A y \in rrs : x.tid <= y.tid
       IN resend_from(send_message(s, MForward(rr.tid, rr.request_bl, rr.client),
                                   get_inst(s.monmap, s.leader)),
                      rrs \ {rr})

\* Monitor::resend_routed_requests
resend_routed_requests(s) == resend_from(s, s.routed_requests)

\* session_map.remove_session(s) on the session of connection c: the
\* session object is closed, for whoever still refers to it
close_session(s, c) ==
  [s EXCEPT !.sessions[c].priv = "closed",
            !.routed_requests =
              {IF rr.session.inst = c /\ ~rr.session.proxy
                 THEN [rr EXCEPT !.session.closed = TRUE] ELSE rr : rr \in @}]

\* remove_session that leaves the routed requests of the session alone
remove_session_keep_routed(s, c) ==
  IF s.sessions[c].priv # "open" THEN assert_fail(s, "remove_session: !s->closed")
  ELSE close_session(s, c)

\* Monitor::remove_session, on the session of connection c
remove_session(s, c) ==
  IF s.sessions[c].priv # "open" THEN assert_fail(s, "remove_session: !s->closed")
  ELSE close_session([s EXCEPT !.routed_requests =
                        {rr \in @ : rr.tid \notin s.sessions[c].routed_request_tids}],
                     c)

\* messenger->mark_down(connection)
mark_down(s, c) == [s EXCEPT !.connected[c] = FALSE]

\* Monitor::ms_handle_reset
ms_handle_reset(s, c) ==
  IF s.state = STATE_SHUTDOWN \/ c \in Mons \/ s.sessions[c].priv = "none" THEN s
  ELSE LET s1 == IF s.sessions[c].priv = "open" THEN remove_session(s, c) ELSE s
       IN [s1 EXCEPT !.sessions[c].priv = "none"]

\* PaxosService::dispatch: outside a quorum the service cannot read its
\* state and keeps the request for later; the leader handles it and
\* replies; a peon forwards it
service_dispatch(s, req) ==
  IF s.state \notin {STATE_LEADER, STATE_PEON}
    THEN [s EXCEPT !.deferred = Append(@, req)]
  ELSE IF is_leader(s) THEN send_reply(s, req, Reply(req))
  ELSE forward_request_leader(s, req)

\* Monitor::handle_command for a command the monitor answers itself,
\* through reply_command
handle_command(s, req) == send_reply(s, req, Reply(req))

\* Monitor::_ms_dispatch, the switch on the type of a client's request
dispatch_request(s, req) ==
  IF req.op = MSG_MON_COMMAND THEN handle_command(s, req)
  ELSE service_dispatch(s, req)

\* Monitor::handle_forward: the request is dispatched over a connection
\* made up for it, whose session points back at the forwarding monitor
handle_forward(s, m) ==
  dispatch_request(s, [m.msg EXCEPT !.src = m.client, !.proxy_con = m.src,
                                    !.proxy_tid = m.tid])

\* the message is younger than mon_lease
is_recent(m) == m.age < LeaseTicks

\* Monitor::_ms_dispatch, the test of the admission gate: this monitor is
\* out of quorum and the sender is no peer monitor
gate_closed(s, src_is_mon) == s.exited_quorum /\ ~src_is_mon

\* the waitlist branch taken whatever the age of the message
gate_waitlist_always(s, m) ==
  [s EXCEPT !.maybe_wait_for_quorum = Append(@, m)]

\* Monitor::_ms_dispatch, behind the closed gate: a recent message of a
\* live connection is waitlisted, any other is dropped and its connection
\* closed
gate_waitlist_or_close(s, m) ==
  IF is_recent(m) /\ s.connected[m.src]
    THEN [s EXCEPT !.maybe_wait_for_quorum = Append(@, m)]
    ELSE mark_down(s, m.src)

\* Monitor::_ms_dispatch for a message that came over the connection of
\* m.src: a closed session counts as none, a connection without session
\* passes the admission gate or gets a new session, then the switch on
\* the type
ms_dispatch(s, m) ==
  IF s.state = STATE_SHUTDOWN THEN s
  ELSE IF s.sessions[m.src].priv # "open" /\ gate_closed(s, m.src \in Mons)
    THEN gate_waitlist_or_close(s, m)
  ELSE LET s1 == IF s.sessions[m.src].priv # "open"
                   THEN [s EXCEPT !.sessions[m.src] =
                           [priv |-> "open", routed_request_tids |-> {}]]
                   ELSE s
       IN IF m.op = MSG_ROUTE THEN handle_route(s1, m)
          ELSE IF m.op = MSG_FORWARD THEN handle_forward(s1, m)
          ELSE dispatch_request(s1, m)

RECURSIVE retry_messages(_, _)
\* finish_contexts over a list of C_RetryMessage: each message goes
\* through _ms_dispatch again, in order
retry_messages(s, ms) ==
  IF ms = <<>> THEN s
  ELSE retry_messages(ms_dispatch(s, Head(ms)), Tail(ms))

\* finish_contexts(maybe_wait_for_quorum): the list is taken, then run
flush_waitlist(s) ==
  retry_messages([s EXCEPT !.maybe_wait_for_quorum = <<>>], s.maybe_wait_for_quorum)

RECURSIVE retry_deferred(_, _)
\* PaxosService: the requests the service kept are dispatched to it again
retry_deferred(s, reqs) ==
  IF reqs = <<>> THEN s
  ELSE retry_deferred(service_dispatch(s, Head(reqs)), Tail(reqs))

service_retry(s) == retry_deferred([s EXCEPT !.deferred = <<>>], s.deferred)

RECURSIVE trim_sessions(_, _, _)
\* Monitor::tick, the loop over the sessions of clients: one whose time
\* is up, or any when the monitor has been out of quorum for too long,
\* has its connection closed and is removed
trim_sessions(s, cs, drop) ==
  IF cs = {} THEN s
  ELSE LET c == Min(cs)
           s1 == IF c \in drop THEN remove_session(mark_down(s, c), c) ELSE s
       IN trim_sessions(s1, cs \ {c}, drop)

\* Monitor::tick: expired are the sessions whose time is up, long_out
\* tells that exited_quorum is more than twice mon_lease ago; then the
\* waitlist, one tick older, is run
tick(s, expired, long_out) ==
  LET open == {c \in Clients : s.sessions[c].priv = "open"}
      drop == IF s.exited_quorum /\ long_out THEN open ELSE expired \cap open
      s1 == trim_sessions(s, open, drop)
      older == [i \in 1 .. Len(s1.maybe_wait_for_quorum) |->
                  [s1.maybe_wait_for_quorum[i] EXCEPT
                     !.age = IF @ < LeaseTicks THEN @ + 1 ELSE @]]
  IN flush_waitlist([s1 EXCEPT !.maybe_wait_for_quorum = older])

\* finish_election that sends no routed request again
finish_election_no_resend(s) ==
  flush_waitlist([s EXCEPT !.exited_quorum = FALSE])

\* Monitor::finish_election: the quorum was entered; the waitlist is run
\* and the routed requests are sent again
finish_election(s) ==
  resend_routed_requests(flush_waitlist([s EXCEPT !.exited_quorum = FALSE]))

\* a call the monitor makes on the Log or on its services, collected
\* until the handler returns: what the callee finds on the monitor when
\* it is called, how many messages the handler has sent by then and how
\* many messages are still on the waitlist
called(s, name) ==
  [s EXCEPT !.calls = Append(@, [call |-> name, state |-> s.state,
                                 leader |-> s.leader, quorum |-> s.quorum,
                                 sent |-> Len(s.out),
                                 waiting |-> Len(s.maybe_wait_for_quorum)])]

\* the monitor once a handler has returned: its messages have left and
\* its calls are over
returned(s) == [s EXCEPT !.out = <<>>, !.calls = <<>>]

\* paxos->leader_init() and paxos->peon_init()
leader_init(s) == called(s, "leader_init")

peon_init(s) == called(s, "peon_init")

\* election_finished() on every paxos service
election_finished(s) == called(s, "election_finished")

\* lose_election that finishes the election before the Log and the
\* services were told of it
lose_election_finish_first(s, q, l) ==
  LET s1 == [s EXCEPT !.state = STATE_PEON, !.leader = l, !.quorum = q,
                      !.outside_quorum = {}]
      s2 == [send_each(s1, MMonSync(OP_ABORT), s1.trim_timeouts)
               EXCEPT !.trim_timeouts = {}, !.sync_role = @ \ SYNC_ROLE_LEADER]
  IN election_finished(peon_init(finish_election(s2)))

\* Monitor::win_election
win_election(s, active) ==
  LET s1 == IF ~is_electing(s) THEN reset(s) ELSE s
      s2 == [s1 EXCEPT !.state = STATE_LEADER, !.leader = s.rank,
                       !.quorum = active, !.outside_quorum = {}]
  IN finish_election(election_finished(leader_init(s2)))

\* Monitor::win_standalone_election
win_standalone_election(s) ==
  LET r == get_rank(s.monmap, s.id)
  IN IF r # 0 THEN assert_fail([s EXCEPT !.rank = r], "win_standalone_election: rank == 0")
     ELSE win_election([s EXCEPT !.rank = r], {r})

\* Monitor::lose_election, its sync-leader part: every tracked requester
\* gets OP_ABORT and its trim timeout is cancelled, then trim_timeouts is
\* cleared and the leader bit dropped
lose_election_abort_syncs(s) ==
  [send_each(s, MMonSync(OP_ABORT), s.trim_timeouts)
     EXCEPT !.trim_timeouts = {},
            !.sync_role = @ \ SYNC_ROLE_LEADER]

\* Monitor::lose_election
lose_election(s, q, l) ==
  LET s1 == [s EXCEPT !.state = STATE_PEON, !.leader = l, !.quorum = q,
                      !.outside_quorum = {}]
  IN finish_election(election_finished(peon_init(lose_election_abort_syncs(s1))))

\* Monitor::start_election
start_election(s) == [cancel_probe_timeout(s) EXCEPT !.state = STATE_ELECTING]

\* bootstrap without its test for a map of one member
bootstrap_always_probes(s) ==
  LET s0 == cancel_probe_timeout(s)
      newrank == get_rank(s.monmap, s.id)
  IN IF newrank < 0 /\ s.rank >= 0 /\ s.has_ever_joined
       THEN [s0 EXCEPT !.failed = "exit"]
       ELSE
         LET s1 == [s0 EXCEPT !.rank = newrank]
             s2 == reset([reset_sync(s1) EXCEPT !.state = STATE_PROBING])
             s3 == reset_probe_timeout(s2)
             s4 == IF s.id \in s3.monmap.members
                     THEN [s3 EXCEPT !.outside_quorum = @ \cup {s.id}]
                     ELSE s3
         IN send_each(s4, MMonProbe(OP_PROBE, s4.has_ever_joined),
                      {a \in s4.monmap.members : get_rank(s4.monmap, a) # s4.rank})

\* Monitor::bootstrap
bootstrap(s) ==
  LET s0 == cancel_probe_timeout(s)
      newrank == get_rank(s.monmap, s.id)
  IN IF newrank < 0 /\ s.rank >= 0 /\ s.has_ever_joined
       THEN [s0 EXCEPT !.failed = "exit"]
       ELSE
         LET s1 == [s0 EXCEPT !.rank = newrank]
             s2 == reset([reset_sync(s1) EXCEPT !.state = STATE_PROBING])
         IN IF Cardinality(s2.monmap.members) = 1 /\ s2.rank = 0
              THEN win_standalone_election(s2)
              ELSE
                LET s3 == reset_probe_timeout(s2)
                    s4 == IF s.id \in s3.monmap.members
                            THEN [s3 EXCEPT !.outside_quorum = @ \cup {s.id}]
                            ELSE s3
                IN send_each(s4, MMonProbe(OP_PROBE, s4.has_ever_joined),
                             {a \in s4.monmap.members : get_rank(s4.monmap, a) # s4.rank})

\* ------------------------------------------------------- sync leader
\* handle_sync_start's branch that accepts, had it left out the call of
\* paxos->trim_disable()
sync_start_accept_trim_left_on(s, other) ==
  [s EXCEPT !.trim_timeouts = @ \cup {other},
            !.sync_entities_states[other] = SYNC_STATE_START,
            !.sync_role = @ \cup SYNC_ROLE_LEADER]

\* handle_sync_start's branch that accepts: the requester gets a trim
\* timeout and a state, the monitor the SyncLeader bit, the Log stops
\* trimming
sync_start_accept(s, other) ==
  trim_disable([s EXCEPT !.trim_timeouts = @ \cup {other},
                         !.sync_entities_states[other] = SYNC_STATE_START,
                         !.sync_role = @ \cup SYNC_ROLE_LEADER])

\* handle_sync_start that tears down whatever session it tracks
handle_sync_start_no_stray(s, m, should_trim) ==
  IF ~is_leader(s) /\ s.quorum # {}
    THEN send_message(s, [m EXCEPT !.reply_to = m.src,
                                   !.flags = @ \cup {FLAG_REPLY_TO}],
                      get_inst(s.monmap, s.leader))
    ELSE
      LET other == IF FLAG_REPLY_TO \in m.flags THEN m.reply_to ELSE m.src
          s1 == IF other \in s.trim_timeouts
                  THEN [s EXCEPT !.trim_timeouts = @ \ {other},
                                 !.sync_entities_states[other] = "absent"]
                  ELSE s
      IN IF (s1.quorum # {} /\ should_trim) \/ s1.trim_enable_timer
           THEN send_message(s1, [MMonSync(OP_START_REPLY)
                                    EXCEPT !.flags = {FLAG_RETRY}], other)
           ELSE send_message(
                  sync_start_accept(
                    IF s.trim_timeouts = {}
                      THEN [s1 EXCEPT !.n_trim_disable = 0, !.n_trim_enable = 0]
                      ELSE s1, other),
                  MMonSync(OP_START_REPLY), other)

\* Monitor::handle_sync_start; should_trim is what paxos->should_trim()
\* answers
handle_sync_start(s, m, should_trim) ==
  IF ~is_leader(s) /\ s.quorum # {}
    THEN send_message(s, [m EXCEPT !.reply_to = m.src,
                                   !.flags = @ \cup {FLAG_REPLY_TO}],
                      get_inst(s.monmap, s.leader))
    ELSE
      LET other == IF FLAG_REPLY_TO \in m.flags THEN m.reply_to ELSE m.src
      IN IF other \in s.trim_timeouts
            /\ s.sync_entities_states[other] \notin {"absent", SYNC_STATE_NONE}
           THEN s
           ELSE
             LET s1 == IF other \in s.trim_timeouts
                         THEN [s EXCEPT !.trim_timeouts = @ \ {other},
                                        !.sync_entities_states[other] = "absent"]
                         ELSE s
             IN IF (s1.quorum # {} /\ should_trim) \/ s1.trim_enable_timer
                  THEN send_message(s1, [MMonSync(OP_START_REPLY)
                                           EXCEPT !.flags = {FLAG_RETRY}], other)
                  ELSE send_message(
                         sync_start_accept(
                           IF s.trim_timeouts = {}
                             THEN [s1 EXCEPT !.n_trim_disable = 0, !.n_trim_enable = 0]
                             ELSE s1, other),
                         MMonSync(OP_START_REPLY), other)

\* sync_finish, had it enabled trimming at once where it arms the timer
arm_trim_enable_none(s) == trim_enable(s)

\* sync_finish arms the trim-enable timer: trim_enable_timer = new
\* C_TrimEnable, due after 30 seconds
arm_trim_enable(s) == [s EXCEPT !.trim_enable_timer = TRUE]

\* Monitor::sync_finish
sync_finish(s, entity, abort) ==
  IF entity \notin s.trim_timeouts THEN s
  ELSE
    LET s1 == [s EXCEPT !.trim_timeouts = @ \ {entity},
                        !.sync_entities_states[entity] = "absent"]
        s2 == IF abort THEN send_message(s1, MMonSync(OP_ABORT), entity) ELSE s1
    IN IF s2.trim_timeouts # {} THEN s2
       ELSE
         LET s3 == [s2 EXCEPT !.sync_role = @ \ SYNC_ROLE_LEADER]
         IN IF is_leader(s3) /\ is_trim_disabled(s3)
              THEN arm_trim_enable(s3)
              ELSE s3

\* Monitor::handle_sync_heartbeat
handle_sync_heartbeat(s, m) ==
  LET other == m.src
  IN IF ~(SYNC_ROLE_LEADER \subseteq s.sync_role)
        \/ s.sync_entities_states[other] = "absent"
        \/ s.sync_entities_states[other] # SYNC_STATE_START
       THEN s
     ELSE IF ~is_leader(s) /\ s.quorum # {} /\ other \in s.trim_timeouts
       THEN sync_finish(s, other, TRUE)
     ELSE IF other \notin s.trim_timeouts
       THEN assert_fail(s, "handle_sync_heartbeat: trim_timeouts.count(other) > 0")
     ELSE send_message(s, MMonSync(OP_HEARTBEAT_REPLY), other)

\* Monitor::handle_sync_finish
handle_sync_finish(s, m) ==
  LET other == m.src
  IN IF other \notin s.trim_timeouts
        \/ s.sync_entities_states[other] = "absent"
        \/ s.sync_entities_states[other] # SYNC_STATE_START
       THEN s
       ELSE sync_finish(send_message(s, MMonSync(OP_FINISH_REPLY), other),
                        other, FALSE)

\* C_TrimTimeout::finish: the requester's trim timeout fired
trim_timeout(s, entity) == sync_finish(s, entity, FALSE)

\* C_TrimEnable::finish: the trim-enable timer fired
trim_enable_fired(s) == [trim_enable(s) EXCEPT !.trim_enable_timer = FALSE]

\* ----------------------------------------------------- sync provider
\* Monitor::sync_provider_cleanup
sync_provider_cleanup(s, entity) ==
  LET s1 == IF s.sync_entities[entity].set
              THEN [s EXCEPT !.sync_entities[entity] = NullSyncEntity,
                             !.sync_entities_states[entity] = "absent"]
              ELSE s
  IN IF \A e \in Entities : ~s1.sync_entities[e].set
       THEN [s1 EXCEPT !.sync_role = @ \ SYNC_ROLE_PROVIDER]
       ELSE s1

\* the OP_CHUNK that sync_send_chunks builds from a cursor after key last
chunk_msg(data, last) ==
  [MMonSync(OP_CHUNK) EXCEPT
     !.chunk_bl = get_chunk(data, last),
     !.last_key = get_last_key(data, last),
     !.flags = IF has_next_chunk(data, get_last_key(data, last))
                 THEN {} ELSE {FLAG_LAST}]

\* Monitor::sync_send_chunks for the entity of requester e
sync_send_chunks(s, e) ==
  LET sync == s.sync_entities[e]
      data == s.store.data
  IN IF ~sync.synchronizer
       THEN assert_fail(s, "sync_send_chunks: synchronizer.use_count() > 0")
     ELSE IF ~has_next_chunk(data, sync.cursor)
       THEN assert_fail(s, "sync_send_chunks: has_next_chunk()")
     ELSE
       LET last == get_last_key(data, sync.cursor)
           more == has_next_chunk(data, last)
           msg == chunk_msg(data, sync.cursor)
       IN send_message(
            [s EXCEPT !.sync_entities[e].cursor = last,
                      !.sync_entities[e].synchronizer = more,
                      !.sync_entities[e].timeout = TRUE],
            msg, e)

\* Monitor::handle_sync_start_chunks
handle_sync_start_chunks(s, m) ==
  LET other == m.src
  IN IF s.sync_entities[other].set THEN s
     ELSE
       LET sync == [NullSyncEntity EXCEPT !.set = TRUE,
                                          !.last_received_key = m.last_key,
                                          !.cursor = m.last_key,
                                          !.synchronizer = TRUE]
       IN sync_send_chunks(
            [s EXCEPT !.sync_entities[other] = sync,
                      !.sync_entities_states[other] = SYNC_STATE_START,
                      !.sync_role = @ \cup SYNC_ROLE_PROVIDER],
            other)

\* reading sync_entities_states[other] with operator[] inserts a
\* SYNC_STATE_NONE entry when there is none
states_touch(s, other) ==
  IF s.sync_entities_states[other] = "absent"
    THEN [s EXCEPT !.sync_entities_states[other] = SYNC_STATE_NONE]
    ELSE s

\* Monitor::handle_sync_chunk_reply
handle_sync_chunk_reply(s, m) ==
  LET other == m.src
  IN IF ~(SYNC_ROLE_PROVIDER \subseteq s.sync_role) \/ ~s.sync_entities[other].set
       THEN s
     ELSE IF s.sync_entities_states[other] # SYNC_STATE_START
       THEN states_touch(s, other)
     ELSE IF FLAG_LAST \in m.flags
       THEN sync_provider_cleanup(s, other)
     ELSE sync_send_chunks(s, other)

\* ---------------------------------------------------- sync requester
\* Monitor::sync_requester_abort
sync_requester_abort(s) ==
  IF s.state # STATE_SYNCHRONIZING
    THEN assert_fail(s, "sync_requester_abort: state == STATE_SYNCHRONIZING")
  ELSE IF s.sync_role # SYNC_ROLE_REQUESTER
    THEN assert_fail(s, "sync_requester_abort: sync_role == SYNC_ROLE_REQUESTER")
  ELSE
    LET s1 == [s EXCEPT !.sync_leader = NullLeader]
        s2 == IF s1.sync_provider.set
                THEN [send_message(s1, MMonSync(OP_ABORT), s1.sync_provider.entity)
                        EXCEPT !.sync_provider = NullProvider]
                ELSE s1
        s3 == [store_clear(s2) EXCEPT !.sync_role = SYNC_ROLE_NONE,
                                      !.sync_state = SYNC_STATE_NONE,
                                      !.state = "0"]
    IN bootstrap(s3)

\* sync_start, had it left the store unmarked
put_in_sync_left_out(s) == s

\* sync_start marks the store: t.put("mon_sync", "in_sync", 1)
put_in_sync(s) == [s EXCEPT !.store.in_sync = TRUE]

\* Monitor::sync_start
sync_start(s, other) ==
  LET s0 == cancel_probe_timeout(s)
  IN IF s0.state = STATE_SYNCHRONIZING /\ s0.sync_role = SYNC_ROLE_REQUESTER
       THEN s0
     ELSE IF s0.sync_role # SYNC_ROLE_NONE
       THEN assert_fail(s0, "sync_start: sync_role == SYNC_ROLE_NONE")
     ELSE IF s0.sync_state # SYNC_STATE_NONE
       THEN assert_fail(s0, "sync_start: sync_state == SYNC_STATE_NONE")
     ELSE
       LET s1 == [store_clear(s0) EXCEPT !.state = STATE_SYNCHRONIZING,
                                         !.sync_role = SYNC_ROLE_REQUESTER,
                                         !.sync_state = SYNC_STATE_START]
           s2 == [put_in_sync(s1) EXCEPT
                            !.sync_leader = [get_sync_entity_leader(other)
                                               EXCEPT !.timeout = "start_reply"],
                            !.sync_provider = get_sync_entity_provider(other)]
       IN send_message(s2, MMonSync(OP_START), other)

\* Monitor::sync_start_chunks(sync_provider)
sync_start_chunks(s) ==
  IF s.sync_role # SYNC_ROLE_REQUESTER
    THEN assert_fail(s, "sync_start_chunks: sync_role == SYNC_ROLE_REQUESTER")
  ELSE IF s.sync_state # SYNC_STATE_START
    THEN assert_fail(s, "sync_start_chunks: sync_state == SYNC_STATE_START")
  ELSE
    send_message([s EXCEPT !.sync_state = SYNC_STATE_CHUNKS,
                           !.sync_provider.timeout = "sync"],
                 [MMonSync(OP_START_CHUNKS) EXCEPT
                    !.last_key = s.sync_provider.last_received_key],
                 s.sync_provider.entity)

\* Monitor::sync_start_reply_timeout
sync_start_reply_timeout(s) ==
  IF s.state # STATE_SYNCHRONIZING
    THEN assert_fail(s, "sync_start_reply_timeout: state == STATE_SYNCHRONIZING")
  ELSE IF s.sync_role # SYNC_ROLE_REQUESTER
    THEN assert_fail(s, "sync_start_reply_timeout: sync_role == SYNC_ROLE_REQUESTER")
  ELSE IF s.sync_state # SYNC_STATE_START
    THEN assert_fail(s, "sync_start_reply_timeout: sync_state == SYNC_STATE_START")
  ELSE sync_requester_abort(s)

\* Monitor::handle_sync_start_reply
handle_sync_start_reply(s, m) ==
  LET other == m.src
  IN IF s.sync_role # SYNC_ROLE_REQUESTER \/ s.sync_state # SYNC_STATE_START
       THEN s
     ELSE IF s.state # STATE_SYNCHRONIZING
       THEN assert_fail(s, "handle_sync_start_reply: state == STATE_SYNCHRONIZING")
     ELSE IF ~s.sync_leader.set
       THEN assert_fail(s, "handle_sync_start_reply: sync_leader.get() != NULL")
     ELSE IF ~s.sync_provider.set
       THEN assert_fail(s, "handle_sync_start_reply: sync_provider.get() != NULL")
     ELSE
       LET s1 == [s EXCEPT !.sync_leader.entity = other,
                           !.sync_leader.timeout = "none"]
       IN IF FLAG_RETRY \in m.flags
            THEN [s1 EXCEPT !.sync_role = SYNC_ROLE_NONE,
                            !.sync_state = SYNC_STATE_NONE,
                            !.sync_leader.timeout = "start_retry"]
            ELSE sync_start_chunks(
                   send_message([s1 EXCEPT !.sync_leader.timeout = "heartbeat_timeout"],
                                MMonSync(OP_HEARTBEAT), other))

\* Monitor::handle_sync_heartbeat_reply
handle_sync_heartbeat_reply(s, m) ==
  LET other == m.src
  IN IF s.sync_role # SYNC_ROLE_REQUESTER
        \/ s.sync_state = SYNC_STATE_NONE
        \/ ~s.sync_leader.set
        \/ other # s.sync_leader.entity
       THEN s
     ELSE IF s.state # STATE_SYNCHRONIZING
       THEN assert_fail(s, "handle_sync_heartbeat_reply: state == STATE_SYNCHRONIZING")
     ELSE [s EXCEPT !.sync_leader.timeout = "heartbeat_interval"]

\* Monitor::sync_stop
sync_stop(s) ==
  IF s.sync_role # SYNC_ROLE_REQUESTER
    THEN assert_fail(s, "sync_stop: sync_role == SYNC_ROLE_REQUESTER")
  ELSE IF s.sync_state # SYNC_STATE_CHUNKS
    THEN assert_fail(s, "sync_stop: sync_state == SYNC_STATE_CHUNKS")
  ELSE
    send_message([s EXCEPT !.sync_state = SYNC_STATE_STOP,
                           !.sync_provider = NullProvider,
                           !.sync_leader.timeout = "finish_reply"],
                 MMonSync(OP_FINISH), s.sync_leader.entity)

\* Monitor::handle_sync_chunk
handle_sync_chunk(s, m) ==
  LET other == m.src
  IN IF s.sync_role # SYNC_ROLE_REQUESTER
        \/ s.sync_state # SYNC_STATE_CHUNKS
        \/ ~s.sync_provider.set
        \/ other # s.sync_provider.entity
       THEN s
     ELSE IF s.state # STATE_SYNCHRONIZING
       THEN assert_fail(s, "handle_sync_chunk: state == STATE_SYNCHRONIZING")
     ELSE IF ~s.sync_leader.set
       THEN assert_fail(s, "handle_sync_chunk: sync_leader.get() != NULL")
     ELSE
       LET s1 == [s EXCEPT !.sync_provider.timeout = "sync",
                           !.sync_provider.last_received_key = m.last_key]
           s2 == send_message(s1, [MMonSync(OP_CHUNK_REPLY) EXCEPT
                                     !.flags = m.flags \cap {FLAG_LAST}],
                              s1.sync_provider.entity)
           s3 == apply_transaction(s2, m.chunk_bl)
       IN IF FLAG_LAST \in m.flags THEN sync_stop(s3) ELSE s3

\* Monitor::sync_finish_reply_timeout
sync_finish_reply_timeout(s) ==
  IF s.state # STATE_SYNCHRONIZING
    THEN assert_fail(s, "sync_finish_reply_timeout: state == STATE_SYNCHRONIZING")
  ELSE IF ~s.sync_leader.set
    THEN assert_fail(s, "sync_finish_reply_timeout: sync_leader.get() != NULL")
  ELSE IF s.sync_role # SYNC_ROLE_REQUESTER
    THEN assert_fail(s, "sync_finish_reply_timeout: sync_role == SYNC_ROLE_REQUESTER")
  ELSE IF s.sync_state # SYNC_STATE_STOP
    THEN assert_fail(s, "sync_finish_reply_timeout: sync_state == SYNC_STATE_STOP")
  ELSE sync_requester_abort(s)

\* Monitor::init_paxos
init_paxos(s) == paxos_init(s)

\* a finish that would erase both markers of the mon_sync prefix
sync_finish_reply_erases_markers(s) ==
  init_paxos([s EXCEPT !.sync_role = SYNC_ROLE_NONE,
                       !.sync_state = SYNC_STATE_NONE,
                       !.sync_leader = NullLeader,
                       !.store.in_sync = FALSE,
                       !.store.force_sync = FALSE])

\* handle_sync_finish_reply, after the stray check: drop role, phase and
\* leader entity, erase the mon_sync:in_sync marker, re-initialise the Log
sync_finish_reply_apply(s) ==
  init_paxos([s EXCEPT !.sync_role = SYNC_ROLE_NONE,
                       !.sync_state = SYNC_STATE_NONE,
                       !.sync_leader = NullLeader,
                       !.store.in_sync = FALSE])

\* Monitor::handle_sync_finish_reply
handle_sync_finish_reply(s, m) ==
  LET other == m.src
  IN IF s.sync_role # SYNC_ROLE_REQUESTER
        \/ s.sync_state # SYNC_STATE_STOP
        \/ ~s.sync_leader.set
        \/ s.sync_leader.entity # other
       THEN s
       ELSE bootstrap(sync_finish_reply_apply(s))

\* Monitor::handle_sync_abort
handle_sync_abort(s, m) ==
  LET other == m.src
  IN IF s.sync_role = SYNC_ROLE_REQUESTER /\ s.sync_leader.set
        /\ s.sync_leader.entity = other
       THEN sync_requester_abort(s)
     ELSE IF SYNC_ROLE_PROVIDER \subseteq s.sync_role /\ s.sync_entities[other].set
       THEN IF s.sync_entities_states[other] = SYNC_STATE_START
              THEN sync_provider_cleanup(s, other)
              ELSE states_touch(s, other)
     ELSE s

\* sync_timeout that gives up only after too many attempts, whatever the
\* size of the map
sync_timeout_retries_only(s, entity, pick) ==
  IF s.state = STATE_SYNCHRONIZING
    THEN
      IF s.sync_role # SYNC_ROLE_REQUESTER
        THEN assert_fail(s, "sync_timeout: sync_role == SYNC_ROLE_REQUESTER")
      ELSE IF s.sync_state # SYNC_STATE_CHUNKS
        THEN assert_fail(s, "sync_timeout: sync_state == SYNC_STATE_CHUNKS")
      ELSE
        LET s1 == [s EXCEPT !.sync_provider.attempts = @ + 1]
        IN IF s1.sync_provider.attempts > mon_sync_max_retries
             THEN sync_requester_abort(s1)
           ELSE IF pick = Blank
             THEN assert_fail(s1, "sync_timeout: Unable to find a new monitor to connect to")
           ELSE sync_start_chunks([s1 EXCEPT !.sync_provider.entity = pick,
                                             !.sync_state = SYNC_STATE_START])
  ELSE IF SYNC_ROLE_PROVIDER \subseteq s.sync_role
    THEN sync_provider_cleanup(s, entity)
  ELSE assert_fail(s, "sync_timeout: We should never reach this")

\* Monitor::sync_timeout(entity); pick is what the pick_random_mon loop
\* ends with: a monitor that is neither this one nor the timed-out one,
\* or Blank when no draw of the loop gave one
sync_timeout(s, entity, pick) ==
  IF s.state = STATE_SYNCHRONIZING
    THEN
      IF s.sync_role # SYNC_ROLE_REQUESTER
        THEN assert_fail(s, "sync_timeout: sync_role == SYNC_ROLE_REQUESTER")
      ELSE IF s.sync_state # SYNC_STATE_CHUNKS
        THEN assert_fail(s, "sync_timeout: sync_state == SYNC_STATE_CHUNKS")
      ELSE
        LET s1 == [s EXCEPT !.sync_provider.attempts = @ + 1]
        IN IF s1.sync_provider.attempts > mon_sync_max_retries
              \/ Cardinality(s1.monmap.members) = 2
             THEN sync_requester_abort(s1)
           ELSE IF pick = Blank
             THEN assert_fail(s1, "sync_timeout: Unable to find a new monitor to connect to")
           ELSE sync_start_chunks([s1 EXCEPT !.sync_provider.entity = pick,
                                             !.sync_state = SYNC_STATE_START])
  ELSE IF SYNC_ROLE_PROVIDER \subseteq s.sync_role
    THEN sync_provider_cleanup(s, entity)
  ELSE assert_fail(s, "sync_timeout: We should never reach this")

\* the monitors the pick_random_mon loop of sync_timeout may end with
sync_timeout_picks(s, entity) ==
  {a \in s.monmap.members : a # s.id /\ a # entity} \cup {Blank}

\* C_HeartbeatInterval::finish: arm the heartbeat timeout and send the
\* next OP_HEARTBEAT to the sync leader
heartbeat_interval(s) ==
  send_message([s EXCEPT !.sync_leader.timeout = "heartbeat_timeout"],
               MMonSync(OP_HEARTBEAT), s.sync_leader.entity)

\* C_HeartbeatTimeout::finish
heartbeat_timeout(s) == sync_requester_abort(s)

\* C_SyncStartRetry::finish: the back-off after RETRY ended, start again
sync_start_retry(s) == sync_start(s, s.sync_leader.entity)

\* ------------------------------------------------------------ probing
\* Monitor::probe_timeout
probe_timeout(s) ==
  IF ~(is_probing(s) \/ is_synchronizing(s))
    THEN assert_fail(s, "probe_timeout: is_probing() || is_synchronizing()")
    ELSE bootstrap([s EXCEPT !.probe_timeout_event = FALSE])

\* Monitor::handle_probe_probe
handle_probe_probe(s, m) ==
  send_message(s, [MMonProbe(OP_REPLY, s.has_ever_joined) EXCEPT
                     !.quorum = s.quorum,
                     !.monmap = s.monmap,
                     !.paxos_first_version = get_first_committed(s),
                     !.paxos_last_version = get_version(s)],
               m.src)

\* handle_probe_reply, the branch for a peer that reports a quorum
probe_reply_quorum(s, m) ==
  IF is_synchronizing(s) THEN s
  ELSE IF get_version(s) + paxos_max_join_drift < m.paxos_last_version
    THEN sync_start(s, m.src)
  ELSE IF s.id \in s.monmap.members
    THEN start_election(s)
  ELSE send_message(s, MMonJoin, get_inst(s.monmap, Min(m.quorum)))

\* the no-quorum branch that counts a peer whether or not the map has it
probe_reply_no_quorum_counts_all(s, m) ==
  IF m.paxos_first_version > get_version(s)
    THEN sync_start(s, m.src)
  ELSE IF get_first_committed(s) > m.paxos_last_version
    THEN s
  ELSE
    LET s1 == [s EXCEPT !.outside_quorum = @ \cup {m.src}]
        need == (Cardinality(s1.monmap.members) \div 2) + 1
    IN IF Cardinality(s1.outside_quorum) >= need /\ s.id \in s1.outside_quorum
         THEN start_election(s1)
         ELSE s1

\* handle_probe_reply, the branch for a peer that reports no quorum
probe_reply_no_quorum(s, m) ==
  IF m.paxos_first_version > get_version(s)
    THEN sync_start(s, m.src)
  ELSE IF get_first_committed(s) > m.paxos_last_version
    THEN s
  ELSE
    LET s1 == IF m.src \in s.monmap.members
                THEN [s EXCEPT !.outside_quorum = @ \cup {m.src}]
                ELSE s
        need == (Cardinality(s1.monmap.members) \div 2) + 1
    IN IF Cardinality(s1.outside_quorum) >= need /\ s.id \in s1.outside_quorum
         THEN start_election(s1)
         ELSE s1

\* handle_probe_reply that takes the map of any peer
handle_probe_reply_any_peer(s, m) ==
  IF ~is_probing(s) THEN s
  ELSE IF m.monmap # s.monmap
          /\ (m.monmap.epoch > s.monmap.epoch \/ ~s.has_ever_joined)
    THEN bootstrap([s EXCEPT !.monmap = m.monmap])
  ELSE IF m.quorum # {}
    THEN probe_reply_quorum(s, m)
    ELSE probe_reply_no_quorum(s, m)

\* Monitor::handle_probe_reply
handle_probe_reply(s, m) ==
  IF ~is_probing(s) THEN s
  ELSE IF m.monmap # s.monmap /\ m.has_ever_joined
          /\ (m.monmap.epoch > s.monmap.epoch \/ ~s.has_ever_joined)
    THEN bootstrap([s EXCEPT !.monmap = m.monmap])
  ELSE IF m.quorum # {}
    THEN probe_reply_quorum(s, m)
    ELSE probe_reply_no_quorum(s, m)

\* init that starts over the store as it finds it
init_keeps_store(s) == bootstrap(init_paxos([s EXCEPT !.started = TRUE]))

\* ------------------------------------------- startup and commands
\* Monitor::init: a store left in the middle of a sync, or marked by
\* sync_force, is cleared before the Log is initialised; then bootstrap
init(s) ==
  LET s1 == IF s.store.in_sync \/ s.store.force_sync THEN store_clear(s) ELSE s
  IN bootstrap(init_paxos([s1 EXCEPT !.started = TRUE]))

\* Monitor::handle_command, "quorum exit"
quorum_exit(s) == [start_election(reset(s)) EXCEPT !.participating = FALSE]

\* Monitor::handle_command, "quorum enter"
quorum_enter(s) == start_election(reset([s EXCEPT !.participating = TRUE]))

\* Monitor::_ms_dispatch, MSG_MON_PAXOS with pm->epoch > get_epoch()
paxos_newer_epoch(s) == bootstrap(s)

\* ------------------------------------------------------------ the wire
\* what the receiver decodes: an MMonSync by its decode_payload, a
\* routed message as it was sent
decode(msg) ==
  IF msg.op \in {MSG_FORWARD, MSG_ROUTE} THEN msg ELSE decode_payload(msg)

\* the messages a handler sent are encoded, put on the ordered connection
\* to their destination and decoded there; a message to an address where
\* no monitor runs goes nowhere
RECURSIVE flush(_, _, _)
flush(n, src, out) ==
  IF out = <<>> THEN n
  ELSE flush(IF /\ Head(out).dst \in Mons
                /\ mon[Head(out).dst].started
                /\ mon[Head(out).dst].failed = "none"
               THEN [n EXCEPT ![src][Head(out).dst] =
                       Append(@, decode(Head(out).msg))]
               ELSE n,
             src, Tail(out))

\* a process that ended takes no more messages: what is queued for it is
\* lost with its connections
close_dead(n, m, s2) ==
  IF s2.failed = "none" THEN n
  ELSE [a \in Mons |-> [b \in Mons |-> IF b = m THEN <<>> ELSE n[a][b]]]

\* monitor m ran a handler that left it in s2, with n0 the wire as the
\* handler found it
Ran(m, s2, n0) ==
  /\ mon' = [mon EXCEPT ![m] = returned(s2)]
  /\ net' = close_dead(flush(n0, m, s2.out), m, s2)
  /\ sent' = {<<o.dst, o.msg.op, o.msg.flags>> : o \in {s2.out[i] : i \in 1 .. Len(s2.out)}}
  /\ \A d \in Mons : Len(net'[m][d]) <= MaxChan
  /\ s2.routed_request_tid <= MaxTid

\* a handler ran on a message, a command or a timer that was due
Step(m, s2, n0) == Ran(m, s2, n0) /\ UNCHANGED events

\* a timer that ends a wait expired: before what it waits for arrived
\* when early is 1, and each such expiry uses up one event of the budget
Expired(m, s2, early) ==
  /\ Ran(m, s2, net)
  /\ events >= early
  /\ events' = events - early

Running(m) == mon[m].started /\ mon[m].failed = "none" /\ mon[m].state # STATE_SHUTDOWN

\* Monitor::_ms_dispatch lets the next message from src in: the process
\* runs and is not shutting down
Dispatchable(src, m, op) ==
  /\ Running(m)
  /\ net[src][m] # <<>>
  /\ Head(net[src][m]).op = op

\* the next message of the connection from src to m, and the wire
\* without it
Msg(src, m) == Head(net[src][m])

Taken(src, m) == [net EXCEPT ![src][m] = Tail(@)]

\* ------------------------------------------- handlers as steps of m
DoStart(m) ==
  /\ ~mon[m].started /\ mon[m].failed = "none"
  /\ Step(m, init(mon[m]), net)

DoProbe(m, msg, n0) == Step(m, handle_probe_probe(mon[m], msg), n0)

DoProbeReply(m, msg, n0) == Step(m, handle_probe_reply(mon[m], msg), n0)

DoSyncStart(m, msg, n0) ==
  \E should_trim \in BOOLEAN :
    /\ should_trim => mon[m].quorum # {}
    /\ Step(m, handle_sync_start(mon[m], msg, should_trim), n0)

DoSyncStartReply(m, msg, n0) == Step(m, handle_sync_start_reply(mon[m], msg), n0)

DoSyncHeartbeat(m, msg, n0) == Step(m, handle_sync_heartbeat(mon[m], msg), n0)

DoSyncHeartbeatReply(m, msg, n0) ==
  Step(m, handle_sync_heartbeat_reply(mon[m], msg), n0)

DoSyncFinish(m, msg, n0) == Step(m, handle_sync_finish(mon[m], msg), n0)

DoSyncStartChunks(m, msg, n0) == Step(m, handle_sync_start_chunks(mon[m], msg), n0)

DoSyncChunk(m, msg, n0) == Step(m, handle_sync_chunk(mon[m], msg), n0)

DoSyncChunkReply(m, msg, n0) == Step(m, handle_sync_chunk_reply(mon[m], msg), n0)

DoSyncFinishReply(m, msg, n0) == Step(m, handle_sync_finish_reply(mon[m], msg), n0)

DoSyncAbort(m, msg, n0) == Step(m, handle_sync_abort(mon[m], msg), n0)

\* timers
DoProbeTimeout(m, early) ==
  /\ Running(m) /\ mon[m].probe_timeout_event
  /\ Expired(m, probe_timeout(mon[m]), early)

DoSyncStartReplyTimeout(m, early) ==
  /\ Running(m) /\ mon[m].sync_leader.timeout = "start_reply"
  /\ Expired(m, sync_start_reply_timeout(mon[m]), early)

DoSyncStartRetry(m) ==
  /\ Running(m) /\ mon[m].sync_leader.timeout = "start_retry"
  /\ Step(m, sync_start_retry(mon[m]), net)

DoHeartbeatInterval(m) ==
  /\ Running(m) /\ mon[m].sync_leader.timeout = "heartbeat_interval"
  /\ Step(m, heartbeat_interval(mon[m]), net)

DoHeartbeatTimeout(m, early) ==
  /\ Running(m) /\ mon[m].sync_leader.timeout = "heartbeat_timeout"
  /\ Expired(m, heartbeat_timeout(mon[m]), early)

DoSyncFinishReplyTimeout(m, early) ==
  /\ Running(m) /\ mon[m].sync_leader.timeout = "finish_reply"
  /\ Expired(m, sync_finish_reply_timeout(mon[m]), early)

DoRequesterSyncTimeout(m, early) ==
  /\ Running(m) /\ mon[m].sync_provider.timeout = "sync"
  /\ \E pick \in sync_timeout_picks(mon[m], mon[m].sync_provider.entity) :
       Expired(m, sync_timeout(mon[m], mon[m].sync_provider.entity, pick), early)

DoProviderSyncTimeout(m, early) ==
  /\ Running(m)
  /\ \E e \in Entities :
       /\ mon[m].sync_entities[e].timeout
       /\ Expired(m, sync_timeout(mon[m], e, Blank), early)

DoTrimTimeout(m, early) ==
  /\ Running(m)
  /\ \E e \in mon[m].trim_timeouts : Expired(m, trim_timeout(mon[m], e), early)

DoTrimEnable(m) ==
  /\ Running(m) /\ mon[m].trim_enable_timer
  /\ Step(m, trim_enable_fired(mon[m]), net)

\* the tick timer, armed again by every tick
DoTick(m) ==
  /\ Running(m)
  /\ \E expired \in SUBSET Clients, long_out \in BOOLEAN :
       Step(m, tick(mon[m], expired, long_out), net)

\* the messenger reports that the connection of client c failed
DoReset(m) ==
  /\ Running(m)
  /\ \E c \in Clients : Step(m, ms_handle_reset(mark_down(mon[m], c), c), net)

\* a service goes through the requests it kept
DoServiceRetry(m) ==
  /\ Running(m) /\ mon[m].deferred # <<>>
  /\ Step(m, service_retry(mon[m]), net)

\* the Election module: the quorums it may announce to m
Majorities(m) == {q \in SUBSET Mons : m \in q /\ 2 * Cardinality(q) > NMons}

DoWinElection(m) ==
  /\ Running(m) /\ mon[m].state = STATE_ELECTING /\ mon[m].participating
  /\ \E q \in Majorities(m) :
       /\ m = Min(q)
       /\ Step(m, win_election(mon[m], q), net)

DoLoseElection(m) ==
  /\ Running(m) /\ mon[m].state = STATE_ELECTING /\ mon[m].participating
  /\ \E q \in Majorities(m) :
       /\ m # Min(q)
       /\ Step(m, lose_election(mon[m], q, Min(q)), net)

DoCallElection(m) ==
  /\ Running(m) /\ mon[m].state \in {STATE_LEADER, STATE_PEON}
  /\ Step(m, start_election(mon[m]), net)

\* commands and Log messages
DoQuorumExit(m) == Running(m) /\ Step(m, quorum_exit(mon[m]), net)

DoQuorumEnter(m) == Running(m) /\ Step(m, quorum_enter(mon[m]), net)

DoPaxosNewerEpoch(m) == Running(m) /\ Step(m, paxos_newer_epoch(mon[m]), net)

\* ------------------------------------------------------ initial state
\* the last version of an up to date Log: far enough ahead of an empty
\* one that a monitor with an empty store must synchronize
LastVersion == paxos_max_join_drift + 1

\* an up to date store: its service keys at the last version, the Log's
\* first and last committed versions in the last two keys
FullData ==
  [k \in Keys |-> IF k = KeyFirstCommitted THEN 1 ELSE LastVersion]

\* the store of a monitor that is one version behind
StaleData ==
  [k \in Keys |-> IF k = KeyFirstCommitted THEN 1 ELSE LastVersion - 1]

TheMonMap == [epoch |-> 1, members |-> Mons]

\* the fields of a monitor after its constructor, over the store it
\* was given
Monitor(m, data) ==
  [id |-> m, started |-> FALSE, failed |-> "none", out |-> <<>>,
   calls |-> <<>>,
   state |-> STATE_PROBING, rank |-> -1, leader |-> 0,
   has_ever_joined |-> (data # EmptyData), monmap |-> TheMonMap,
   quorum |-> {}, outside_quorum |-> {}, exited_quorum |-> TRUE,
   participating |-> TRUE, probe_timeout_event |-> FALSE,
   sync_role |-> SYNC_ROLE_NONE, sync_state |-> SYNC_STATE_NONE,
   sync_leader |-> NullLeader, sync_provider |-> NullProvider,
   trim_timeouts |-> {}, trim_enable_timer |-> FALSE,
   sync_entities |-> [e \in Entities |-> NullSyncEntity],
   sync_entities_states |-> [e \in Entities |-> "absent"],
   trim_disabled |-> FALSE, n_trim_disable |-> 0, n_trim_enable |-> 0,
   first_committed |-> 0, last_committed |-> 0,
   store |-> [EmptyStore EXCEPT !.data = data],
   routed_request_tid |-> 0, routed_requests |-> {},
   sessions |-> [c \in Conns |-> NoSession],
   connected |-> [c \in Clients |-> TRUE],
   maybe_wait_for_quorum |-> <<>>, deferred |-> <<>>]

\* ------------------ one monitor and everything its peers may send it
\* the monitor of the second rank: it wins an election the first rank
\* takes no part in, and loses the others
Self == Min(Mons \ {Min(Mons)})

\* the peers that talk to it: the ranks next to its own
Peers == {Self - 1, Self + 1}

\* the peer that synchronizes from it
Asker == {Self + 1}

\* the keys a requester may resume from: none, or the last key of a
\* chunk that was not the last one
ResumeKeys == {0} \cup {k \in Keys : k % ChunkKeys = 0 /\ k < NKeys}

\* the sync messages a peer may send, by op
SyncInputs(op) ==
  IF op = OP_START
    THEN {[MMonSync(op) EXCEPT !.flags = f] : f \in {{}, {FLAG_REPLY_TO}}}
  ELSE IF op = OP_START_REPLY
    THEN {[MMonSync(op) EXCEPT !.flags = f] : f \in {{}, {FLAG_RETRY}}}
  ELSE IF op = OP_CHUNK_REPLY
    THEN {[MMonSync(op) EXCEPT !.flags = f] : f \in {{}, {FLAG_LAST}}}
  ELSE IF op = OP_START_CHUNKS
    THEN {[MMonSync(op) EXCEPT !.last_key = k] : k \in ResumeKeys}
  ELSE IF op = OP_CHUNK
    THEN {chunk_msg(FullData, k) : k \in ResumeKeys}
  ELSE {MMonSync(op)}

\* the probe replies a peer may send: in a quorum or not, with a store
\* that is up to date or empty
ProbeReplies ==
  {[MMonProbe(OP_REPLY, TRUE) EXCEPT
      !.quorum = q, !.monmap = TheMonMap,
      !.paxos_first_version = v[1], !.paxos_last_version = v[2]] :
     q \in {{}, Peers}, v \in {<<1, LastVersion>>, <<0, 0>>}}

\* the probe replies of peers that are not ahead of an up to date store
ProbeRepliesLevel == {msg \in ProbeReplies : msg.paxos_last_version = 0}

From(msg, src) == [msg EXCEPT !.src = src]

\* Monitor::_ms_dispatch hands Self a message of a peer
EnvProbe ==
  \E src \in Peers :
    Running(Self) /\ DoProbe(Self, From(MMonProbe(OP_PROBE, TRUE), src), net)

EnvProbeReply(replies) ==
  \E src \in Peers, msg \in replies :
    Running(Self) /\ DoProbeReply(Self, From(msg, src), net)

EnvSyncStart(from) ==
  \E src \in from, msg \in SyncInputs(OP_START) :
    Running(Self) /\ DoSyncStart(Self, From(msg, src), net)

EnvSyncStartReply ==
  \E src \in Peers, msg \in SyncInputs(OP_START_REPLY) :
    Running(Self) /\ DoSyncStartReply(Self, From(msg, src), net)

EnvSyncHeartbeat(from) ==
  \E src \in from, msg \in SyncInputs(OP_HEARTBEAT) :
    Running(Self) /\ DoSyncHeartbeat(Self, From(msg, src), net)

EnvSyncHeartbeatReply ==
  \E src \in Peers, msg \in SyncInputs(OP_HEARTBEAT_REPLY) :
    Running(Self) /\ DoSyncHeartbeatReply(Self, From(msg, src), net)

EnvSyncFinish(from) ==
  \E src \in from, msg \in SyncInputs(OP_FINISH) :
    Running(Self) /\ DoSyncFinish(Self, From(msg, src), net)

EnvSyncStartChunks(from) ==
  \E src \in from, msg \in SyncInputs(OP_START_CHUNKS) :
    Running(Self) /\ DoSyncStartChunks(Self, From(msg, src), net)

EnvSyncChunk ==
  \E src \in Peers, msg \in SyncInputs(OP_CHUNK) :
    Running(Self) /\ DoSyncChunk(Self, From(msg, src), net)

EnvSyncChunkReply(from) ==
  \E src \in from, msg \in SyncInputs(OP_CHUNK_REPLY) :
    Running(Self) /\ DoSyncChunkReply(Self, From(msg, src), net)

EnvSyncFinishReply ==
  \E src \in Peers, msg \in SyncInputs(OP_FINISH_REPLY) :
    Running(Self) /\ DoSyncFinishReply(Self, From(msg, src), net)

EnvSyncAbort ==
  \E src \in Peers, msg \in SyncInputs(OP_ABORT) :
    Running(Self) /\ DoSyncAbort(Self, From(msg, src), net)

\* the monitor starts over a store that is up to date or empty
Init ==
  /\ \E data \in {FullData, EmptyData} : mon = [m \in Mons |-> Monitor(m, data)]
  /\ net = [a \in Mons |-> [b \in Mons |-> <<>>]]
  /\ sent = {}
  /\ events = 0

\* what happens to the monitor whoever its peers are: it starts, probes,
\* takes part in elections, is told to leave and enter the quorum
Lifecycle ==
  \/ DoStart(Self)
  \/ EnvProbe
  \/ DoProbeTimeout(Self, 0)
  \/ DoWinElection(Self)
  \/ DoLoseElection(Self)
  \/ DoCallElection(Self)
  \/ DoQuorumExit(Self)
  \/ DoQuorumEnter(Self)
  \/ DoPaxosNewerEpoch(Self)

\* the monitor among peers that may be ahead of it: it synchronizes
\* from them, and one of them fetches chunks from it
Next ==
  \/ Lifecycle
  \/ EnvProbeReply(ProbeReplies)
  \/ EnvSyncStartReply
  \/ EnvSyncHeartbeatReply
  \/ EnvSyncChunk
  \/ EnvSyncFinishReply
  \/ EnvSyncAbort
  \/ EnvSyncStartChunks(Asker)
  \/ EnvSyncChunkReply(Asker)
  \/ DoProviderSyncTimeout(Self, 0)
  \/ DoSyncStartReplyTimeout(Self, 0)
  \/ DoSyncStartRetry(Self)
  \/ DoHeartbeatInterval(Self)
  \/ DoHeartbeatTimeout(Self, 0)
  \/ DoSyncFinishReplyTimeout(Self, 0)
  \/ DoRequesterSyncTimeout(Self, 0)

Spec == Init /\ [][Next]_vars

\* the monitor among peers that are not ahead of it: they synchronize
\* from it
LeaderNext ==
  \/ Lifecycle
  \/ EnvProbeReply(ProbeRepliesLevel)
  \/ EnvSyncStart(Peers)
  \/ EnvSyncHeartbeat(Peers)
  \/ EnvSyncFinish(Peers)
  \/ EnvSyncStartChunks(Asker)
  \/ EnvSyncChunkReply(Asker)
  \/ DoProviderSyncTimeout(Self, 0)
  \/ DoTrimTimeout(Self, 0)
  \/ DoTrimEnable(Self)

LeaderSpec == Init /\ [][LeaderNext]_vars

\* ------------------- a quorum and a monitor that synchronizes from it
\* a monitor as it is once it has started
Started(m, data) == returned(init(Monitor(m, data)))

\* the quorum: every monitor but the last
InQuorum == Mons \ {NMons - 1}

\* the monitor of the lowest rank leads a quorum whose other members
\* lost the election; they are up to date, or within the join drift of
\* it; the last monitor has an empty store and has not started yet
SyncInit ==
  /\ \E stale \in SUBSET (InQuorum \ {Min(InQuorum)}) :
       mon = [m \in Mons |->
                IF m = Min(InQuorum)
                  THEN returned(win_election(start_election(Started(m, FullData)),
                                             InQuorum))
                ELSE IF m \in InQuorum
                  THEN returned(lose_election(
                         start_election(
                           Started(m, IF m \in stale THEN StaleData ELSE FullData)),
                         InQuorum, Min(InQuorum)))
                ELSE Monitor(m, EmptyData)]
  /\ net = [a \in Mons |-> [b \in Mons |-> <<>>]]
  /\ sent = {}
  /\ events = MaxEvents

\* Monitor::_ms_dispatch takes the next message of a connection
Deliver(op, src, m) ==
  /\ src # m
  /\ Dispatchable(src, m, op)

DeliverProbe ==
  \E src, m \in Mons :
    Deliver(OP_PROBE, src, m) /\ DoProbe(m, Msg(src, m), Taken(src, m))

DeliverProbeReply ==
  \E src, m \in Mons :
    Deliver(OP_REPLY, src, m) /\ DoProbeReply(m, Msg(src, m), Taken(src, m))

DeliverSyncStart ==
  \E src, m \in Mons :
    Deliver(OP_START, src, m) /\ DoSyncStart(m, Msg(src, m), Taken(src, m))

DeliverSyncStartReply ==
  \E src, m \in Mons :
    Deliver(OP_START_REPLY, src, m)
      /\ DoSyncStartReply(m, Msg(src, m), Taken(src, m))

DeliverSyncHeartbeat ==
  \E src, m \in Mons :
    Deliver(OP_HEARTBEAT, src, m)
      /\ DoSyncHeartbeat(m, Msg(src, m), Taken(src, m))

DeliverSyncHeartbeatReply ==
  \E src, m \in Mons :
    Deliver(OP_HEARTBEAT_REPLY, src, m)
      /\ DoSyncHeartbeatReply(m, Msg(src, m), Taken(src, m))

DeliverSyncFinish ==
  \E src, m \in Mons :
    Deliver(OP_FINISH, src, m) /\ DoSyncFinish(m, Msg(src, m), Taken(src, m))

DeliverSyncStartChunks ==
  \E src, m \in Mons :
    Deliver(OP_START_CHUNKS, src, m)
      /\ DoSyncStartChunks(m, Msg(src, m), Taken(src, m))

DeliverSyncChunk ==
  \E src, m \in Mons :
    Deliver(OP_CHUNK, src, m) /\ DoSyncChunk(m, Msg(src, m), Taken(src, m))

DeliverSyncChunkReply ==
  \E src, m \in Mons :
    Deliver(OP_CHUNK_REPLY, src, m)
      /\ DoSyncChunkReply(m, Msg(src, m), Taken(src, m))

DeliverSyncFinishReply ==
  \E src, m \in Mons :
    Deliver(OP_FINISH_REPLY, src, m)
      /\ DoSyncFinishReply(m, Msg(src, m), Taken(src, m))

DeliverSyncAbort ==
  \E src, m \in Mons :
    Deliver(OP_ABORT, src, m) /\ DoSyncAbort(m, Msg(src, m), Taken(src, m))

SyncNext ==
  \/ \E m \in Mons : DoStart(m)
  \/ DeliverProbe
  \/ DeliverProbeReply
  \/ DeliverSyncStart
  \/ DeliverSyncStartReply
  \/ DeliverSyncHeartbeat
  \/ DeliverSyncHeartbeatReply
  \/ DeliverSyncFinish
  \/ DeliverSyncStartChunks
  \/ DeliverSyncChunk
  \/ DeliverSyncChunkReply
  \/ DeliverSyncFinishReply
  \/ DeliverSyncAbort
  \/ \E m \in Mons : DoHeartbeatInterval(m)
  \/ \E m \in Mons : DoSyncStartRetry(m)
  \/ \E m \in Mons : DoTrimEnable(m)
  \/ \E m \in Mons : DoProbeTimeout(m, 1)
  \/ \E m \in Mons : DoSyncStartReplyTimeout(m, 1)
  \/ \E m \in Mons : DoHeartbeatTimeout(m, 1)
  \/ \E m \in Mons : DoSyncFinishReplyTimeout(m, 1)
  \/ \E m \in Mons : DoRequesterSyncTimeout(m, 1)
  \/ \E m \in Mons : DoProviderSyncTimeout(m, 1)
  \/ \E m \in Mons : DoTrimTimeout(m, 1)

SyncSpec == SyncInit /\ [][SyncNext]_vars

\* ------------------------------- one monitor, its clients and its peers
\* a client sends an auth request, a command or a request for a service,
\* marked as forwarded before or not
EnvRequest ==
  \E c \in Clients, op \in {CEPH_MSG_AUTH, MSG_MON_COMMAND, MSG_LOG},
     session_mon \in {-1, 0} :
    /\ Running(Self)
    /\ session_mon >= 0 => op = MSG_LOG
    /\ Expired(Self, ms_dispatch(mon[Self], Request(c, op, session_mon)), 1)

\* the peer that leads a quorum this monitor is in, and the peer that
\* forwards to this monitor
LeaderPeer == Self - 1

PeonPeer == Self + 1

\* a peer routes a reply back under a tid, or sends one on without tid
EnvRoute ==
  \E p \in {LeaderPeer}, tid \in 0 .. MaxTid :
    /\ Running(Self)
    /\ Step(Self, ms_dispatch(mon[Self],
                              From(MRoute(tid, Reply(Request(Blank, MSG_LOG, -1))), p)),
            net)

\* a peer forwards the request of one of its clients
EnvForward ==
  \E p \in {PeonPeer}, c \in Clients, tid \in {MaxTid} :
    /\ Running(Self)
    /\ Expired(Self, ms_dispatch(mon[Self],
                                 From(MForward(tid, Request(c, MSG_LOG, -1), c), p)),
               1)

\* the monitor takes the next message it sent to itself
DoSelfDeliver ==
  /\ Running(Self) /\ net[Self][Self] # <<>>
  /\ Step(Self, ms_dispatch(mon[Self], Msg(Self, Self)), Taken(Self, Self))

\* the monitor has not started yet, or it runs and is peon in a quorum
\* that the peer of the lowest rank leads
RouteInit ==
  /\ \E s \in {Monitor(Self, FullData),
               returned(lose_election(start_election(Started(Self, FullData)),
                                      {LeaderPeer, Self}, LeaderPeer))} :
       mon = [m \in Mons |-> IF m = Self THEN s ELSE Monitor(m, FullData)]
  /\ net = [a \in Mons |-> [b \in Mons |-> <<>>]]
  /\ sent = {}
  /\ events = MaxMsgs

\* an election is called through the command "quorum enter"
EnvQuorumEnter == Running(Self) /\ Expired(Self, quorum_enter(mon[Self]), 1)

RouteNext ==
  \/ DoStart(Self)
  \/ DoWinElection(Self)
  \/ DoLoseElection(Self)
  \/ EnvQuorumEnter
  \/ EnvRequest
  \/ EnvRoute
  \/ EnvForward
  \/ DoSelfDeliver
  \/ DoTick(Self)
  \/ DoReset(Self)
  \/ DoServiceRetry(Self)

RouteSpec == RouteInit /\ [][RouteNext]_vars

\* the monitor has not started yet, or it runs and is in an election
RouteFairInit ==
  /\ \E s \in {Monitor(Self, FullData),
               start_election(reset(Started(Self, FullData)))} :
       mon = [m \in Mons |-> IF m = Self THEN s ELSE Monitor(m, FullData)]
  /\ net = [a \in Mons |-> [b \in Mons |-> <<>>]]
  /\ sent = {}
  /\ events = MaxMsgs - 1

\* the tick timer is armed again by every tick, so a tick that is due
\* does fire
RouteFairSpec == RouteFairInit /\ [][RouteNext]_vars /\ WF_vars(DoTick(Self))

\* ------------------------------ one monitor and the peer maps it meets
\* the peer maps around: of this monitor alone, of the next monitor
\* alone, of the two, of all monitors, each at any epoch
Maps ==
  {[epoch |-> e, members |-> ms] :
     e \in 1 .. MaxEpoch, ms \in {{Self}, {Self + 1}, {Self, Self + 1}, Mons}}

\* the probe replies a peer may send: it has joined a quorum before or
\* not, is in one now or not, holds any of the maps, and its store is up
\* to date or empty
MapReplies ==
  {[MMonProbe(OP_REPLY, j) EXCEPT
      !.quorum = q, !.monmap = mp,
      !.paxos_first_version = v[1], !.paxos_last_version = v[2]] :
     j \in BOOLEAN, q \in {{}, Peers}, mp \in Maps,
     v \in {<<1, LastVersion>>, <<0, 0>>}}

\* the monitor was made with any of the maps, over a store that is up to
\* date or empty
MapInit ==
  /\ \E data \in {FullData, EmptyData}, mp \in Maps :
       mon = [m \in Mons |->
                IF m = Self THEN [Monitor(m, data) EXCEPT !.monmap = mp]
                ELSE Monitor(m, FullData)]
  /\ net = [a \in Mons |-> [b \in Mons |-> <<>>]]
  /\ sent = {}
  /\ events = 0

MapNext ==
  \/ DoStart(Self)
  \/ EnvProbeReply(MapReplies)
  \/ DoProbeTimeout(Self, 0)
  \/ DoPaxosNewerEpoch(Self)
  \/ EnvSyncStartReply
  \/ DoRequesterSyncTimeout(Self, 0)

MapSpec == MapInit /\ [][MapNext]_vars

TypeOK ==
  \A m \in Mons :
    /\ mon[m].state \in {STATE_PROBING, STATE_SYNCHRONIZING, STATE_ELECTING,
                          STATE_LEADER, STATE_PEON, STATE_SHUTDOWN}
    /\ mon[m].sync_role \subseteq {"LEADER", "PROVIDER", "REQUESTER"}
    /\ mon[m].out = <<>>
    /\ mon[m].calls = <<>>

\* ------------------------------------------------------------- claims
\* this step of Self is the handler that leaves it as s2
IsStep(s2) == mon' = [mon EXCEPT ![Self] = returned(s2)]

\* this step of m is the handler that leaves it as s2
IsStepOf(m, s2) == mon' = [mon EXCEPT ![m] = returned(s2)]

\* C1: in every reachable state of a monitor at most one of these
\* holds: it is Leader, it is Peon, its sync_role contains Requester
C1_AtMostOneOfLeaderPeonRequester ==
  \A m \in Mons :
    Cardinality({x \in {STATE_LEADER, STATE_PEON} : mon[m].state = x})
      + (IF SYNC_ROLE_REQUESTER \subseteq mon[m].sync_role THEN 1 ELSE 0) <= 1

\* C2: whenever the sync_role of a monitor contains the SyncLeader bit,
\* trimming is disabled on its Log
C2_SyncLeaderTrimDisabled ==
  \A m \in Mons :
    SYNC_ROLE_LEADER \subseteq mon[m].sync_role => is_trim_disabled(mon[m])

\* the elected leader tracks two requesters at once, with trimming
\* disabled
C2_Witness ==
  /\ mon[Self].state = STATE_LEADER
  /\ SYNC_ROLE_LEADER \subseteq mon[Self].sync_role
  /\ Cardinality(mon[Self].trim_timeouts) = 2
  /\ is_trim_disabled(mon[Self])

\* C3: when a Sync-Leader episode is complete (an OP_START was accepted,
\* no requester is tracked any more and trimming was enabled again), the
\* Log got as many trim_disable calls as trim_enable calls
C3_TrimCallsBalanced ==
  \A m \in Mons :
    (/\ mon[m].n_trim_disable > 0
     /\ mon[m].trim_timeouts = {}
     /\ ~is_trim_disabled(mon[m]))
      => mon[m].n_trim_disable = mon[m].n_trim_enable

C5_SynchronizingIsRequester ==
  \A m \in Mons :
    mon[m].state = STATE_SYNCHRONIZING
      => /\ mon[m].sync_role = SYNC_ROLE_REQUESTER
         /\ mon[m].sync_leader.set
         /\ mon[m].sync_provider.set

\* C9: when lose_election runs on a monitor that tracks requesters, each
\* of them is sent OP_ABORT in that step, and after it trim_timeouts is
\* empty, the SyncLeader bit is clear and no sync-leader state of the
\* former requesters is left
C9_LoseElectionDropsObligations ==
  [][\A q \in Majorities(Self) :
       (/\ Self # Min(q)
        /\ mon[Self].state = STATE_ELECTING
        /\ mon[Self].trim_timeouts # {}
        /\ IsStep(lose_election(mon[Self], q, Min(q))))
         => /\ \A e \in mon[Self].trim_timeouts : <<e, OP_ABORT, {}>> \in sent'
            /\ mon'[Self].trim_timeouts = {}
            /\ ~(SYNC_ROLE_LEADER \subseteq mon'[Self].sync_role)
            /\ \A e \in mon[Self].trim_timeouts :
                 mon'[Self].sync_entities_states[e] = "absent"]_vars

\* C10: while a requester is tracked in trim_timeouts trimming is
\* disabled, and trimming is enabled again only by the trim-enable
\* timer, which fires when no requester is tracked
C10_TrimEnabledByTimerOnly ==
  [][/\ mon'[Self].trim_timeouts # {} => is_trim_disabled(mon'[Self])
     /\ (is_trim_disabled(mon[Self]) /\ ~is_trim_disabled(mon'[Self]))
          => /\ mon[Self].trim_enable_timer
             /\ mon[Self].trim_timeouts = {}
             /\ IsStep(trim_enable_fired(mon[Self]))]_vars

\* the trim-enable timer fired after the last requester of an episode
\* was dropped: trimming is enabled again
C10_Witness ==
  /\ mon[Self].n_trim_disable > 0
  /\ mon[Self].n_trim_enable > 0
  /\ mon[Self].trim_timeouts = {}
  /\ ~is_trim_disabled(mon[Self])
  /\ ~mon[Self].trim_enable_timer

\* C6: no timer expired before its time and no election took place; the
\* leader a accepted the OP_START of requester r and serves it as
\* provider; r acknowledged the LAST chunk and sent OP_FINISH behind the
\* acknowledgement. When a has taken the acknowledgement it answers the
\* OP_FINISH that is next on the connection with OP_FINISH_REPLY
C6_LeaderProviderRepliesToFinish ==
  [][\A a, r \in Mons :
       (/\ events = MaxEvents
        /\ mon[a].state = STATE_LEADER
        /\ r \in mon[a].trim_timeouts
        /\ mon[a].sync_entities[r].set
        /\ mon[r].state = STATE_SYNCHRONIZING
        /\ mon[r].sync_state = SYNC_STATE_STOP
        /\ mon[r].sync_leader.entity = a
        /\ Len(net[r][a]) >= 2
        /\ net[r][a][1].op = OP_CHUNK_REPLY
        /\ FLAG_LAST \in net[r][a][1].flags
        /\ net[r][a][2].op = OP_FINISH
        /\ IsStepOf(a, handle_sync_chunk_reply(mon[a], Msg(r, a)))
        /\ net' = Taken(r, a))
         => LET s2 == handle_sync_finish(mon'[a], Head(net'[r][a]))
            IN \E i \in 1 .. Len(s2.out) :
                 /\ s2.out[i].dst = r
                 /\ s2.out[i].msg.op = OP_FINISH_REPLY]_vars

\* every key that store p holds is in store r with the same value
Contains(r, p) == \A k \in Keys : p[k] # 0 => r[k] = p[k]

\* C7: when requester r ends its sync on OP_FINISH_REPLY, its store
\* contains every key and value of the store of some monitor of the
\* quorum, the provider it copied from
C7_StoreContainsProviderStore ==
  [][\A a, r \in Mons :
       (/\ Deliver(OP_FINISH_REPLY, a, r)
        /\ mon[r].store.in_sync
        /\ IsStepOf(r, handle_sync_finish_reply(mon[r], Msg(a, r)))
        /\ ~mon'[r].store.in_sync)
         => \E p \in InQuorum :
              Contains(mon'[r].store.data, mon[p].store.data)]_vars

\* the messages of the kind op that a connection holds
CountOp(q, op) == Cardinality({i \in 1 .. Len(q) : q[i].op = op})

\* C8: for each requester r and provider p at most one OP_CHUNK is
\* unacknowledged: on its way to r, or taken by r with the OP_CHUNK_REPLY
\* on its way to p
C8_OneChunkOutstanding ==
  \A p, r \in Mons :
    CountOp(net[p][r], OP_CHUNK) + CountOp(net[r][p], OP_CHUNK_REPLY) <= 1

\* the MForward messages among the messages a handler sent
Forwards(out) ==
  {out[i] : i \in {j \in 1 .. Len(out) : out[j].msg.op = MSG_FORWARD}}

\* the handlers through which the monitor enters Leader or Peon, as the
\* records they leave
ElectionResults ==
  {win_election(mon[Self], q) : q \in {x \in Majorities(Self) : Self = Min(x)}}
    \cup {lose_election(mon[Self], q, Min(q)) :
            q \in {x \in Majorities(Self) : Self # Min(x)}}

\* C11: a routed request gets a tid greater than every tid issued before
\* in this process, so no two routed requests, outstanding or completed,
\* share a tid; an entry keeps its tid and its request for as long as it is
\* in the table, and a request that is sent again on entering a quorum
\* goes out under the tid of its entry
C11_TidsIncreaseAndStay ==
  [][/\ mon'[Self].routed_request_tid >= mon[Self].routed_request_tid
     /\ \A rr \in mon'[Self].routed_requests :
          /\ rr.tid <= mon'[Self].routed_request_tid
          /\ rr.tid > mon[Self].routed_request_tid
               \/ \E old \in mon[Self].routed_requests :
                    /\ old.tid = rr.tid
                    /\ old.client = rr.client
                    /\ old.request_bl = rr.request_bl
     /\ \A a, b \in mon'[Self].routed_requests : a.tid = b.tid => a = b
     /\ \A s2 \in ElectionResults :
          IsStep(s2)
            => /\ mon[Self].routed_requests \subseteq mon'[Self].routed_requests
               /\ \A f \in Forwards(s2.out) :
                    \E rr \in mon'[Self].routed_requests :
                      /\ f.msg.tid = rr.tid
                      /\ f.msg.msg = rr.request_bl
                      /\ f.msg.client = rr.client]_vars

\* the monitor won an election with two routed requests in its table,
\* under the tids 1 and 2, and sent both again, to itself, in the order of
\* their tids
C11_Witness ==
  /\ mon[Self].state = STATE_LEADER
  /\ {rr.tid : rr \in mon[Self].routed_requests} = {1, 2}
  /\ <<Self, MSG_FORWARD, {}>> \in sent
  /\ Len(net[Self][Self]) = 2
  /\ \A i \in 1 .. 2 :
       /\ net[Self][Self][i].op = MSG_FORWARD
       /\ net[Self][Self][i].tid = i

\* the MForward of entry rr is among the messages queued to dst
Forwarded(q, rr) ==
  \E i \in 1 .. Len(q) :
    q[i] = From(MForward(rr.tid, rr.request_bl, rr.client), Self)

\* the messages the handler that ended in s2 sent to dst
SentTo(s2, dst) ==
  LET idx == {j \in 1 .. Len(s2.out) : s2.out[j].dst = dst}
      f[k \in 0 .. Len(s2.out)] ==
        IF k = 0 THEN <<>>
        ELSE IF k \in idx THEN Append(f[k - 1], s2.out[k].msg) ELSE f[k - 1]
  IN f[Len(s2.out)]

\* C12: whenever the monitor enters Leader or Peon, every routed request
\* that is outstanding at that moment (its reply has not come back, its
\* session is not closed) stays in the table and is sent again, as an
\* MForward under its original tid, to the leader of the quorum entered
C12_ResentToCurrentLeader ==
  [][\A s2 \in ElectionResults :
       IsStep(s2) /\ mon[Self].state = STATE_ELECTING
         => \A rr \in mon[Self].routed_requests :
              ~rr.session.closed
                => /\ rr \in mon'[Self].routed_requests
                   /\ mon'[Self].state \in {STATE_LEADER, STATE_PEON}
                   /\ get_inst(s2.monmap, s2.leader) = Min(mon'[Self].quorum)
                   /\ <<get_inst(s2.monmap, s2.leader), MSG_FORWARD, {}>> \in sent'
                   /\ Forwarded(SentTo(s2, get_inst(s2.monmap, s2.leader)), rr)]_vars

\* the request went to the first leader, which is gone and never
\* replied; this monitor then won an election and sent the request to
\* itself
C12_Witness ==
  /\ mon[Self].state = STATE_LEADER
  /\ mon[Self].leader = get_rank(mon[Self].monmap, Self)
  /\ LeaderPeer \notin mon[Self].quorum
  /\ <<Self, MSG_FORWARD, {}>> \in sent
  /\ \E rr \in mon[Self].routed_requests :
       /\ rr.tid = 1 /\ ~rr.session.closed
       /\ Forwarded(net[Self][Self], rr)

\* the states _ms_dispatch leaves when an MRoute with this tid arrives,
\* from the leading peer or from this monitor itself
RouteResults(tid) ==
  {ms_dispatch(mon[Self], From(MRoute(tid, Reply(Request(Blank, MSG_LOG, -1))), p)) :
     p \in {LeaderPeer}}
    \cup (IF net[Self][Self] # <<>> /\ Msg(Self, Self).op = MSG_ROUTE
             /\ Msg(Self, Self).session_mon_tid = tid
            THEN {ms_dispatch(mon[Self], Msg(Self, Self))}
            ELSE {})

\* the session that owns entry rr is open in s
OwnerOpen(s, rr) ==
  /\ ~rr.session.closed
  /\ ~rr.session.proxy
       => /\ s.sessions[rr.session.inst].priv = "open"
          /\ rr.tid \in s.sessions[rr.session.inst].routed_request_tids

\* C13: every entry of the routed-request table belongs to a session
\* that is not closed and holds a request that was not forwarded before
\* (session_mon < 0); an entry appears only under a tid that
\* forward_request_leader took in that step, and disappears only when an MRoute
\* with its tid is handled or when its session is removed
C13_EntryLifetime ==
  /\ [](\A rr \in mon[Self].routed_requests :
          OwnerOpen(mon[Self], rr) /\ rr.request_bl.session_mon < 0)
  /\ [][/\ \A rr \in mon'[Self].routed_requests \ mon[Self].routed_requests :
             /\ rr.tid <= mon'[Self].routed_request_tid
             /\ rr.tid > mon[Self].routed_request_tid
        /\ \A rr \in mon[Self].routed_requests \ mon'[Self].routed_requests :
             \/ \E s2 \in RouteResults(rr.tid) : IsStep(s2)
             \/ /\ ~rr.session.proxy
                /\ mon'[Self].sessions[rr.session.inst].priv # "open"
                /\ mon'[Self].sessions[rr.session.inst].routed_request_tids
                     \in {{}, mon[Self].sessions[rr.session.inst].routed_request_tids}]_vars

\* a peon forwarded the requests of two clients; the session of the
\* first was removed with its connection closed, which took its entry
\* from the table, and the entry of the second, whose session is open,
\* is still there
C13_Witness ==
  /\ mon[Self].state = STATE_PEON
  /\ mon[Self].routed_request_tid = 2
  /\ \E c \in Clients :
       /\ mon[Self].sessions[c].priv = "closed"
       /\ ~mon[Self].connected[c]
       /\ mon[Self].sessions[c].routed_request_tids = {1}
  /\ \E rr \in mon[Self].routed_requests : rr.tid = 2 /\ OwnerOpen(mon[Self], rr)
  /\ \A rr \in mon[Self].routed_requests : rr.tid = 2

\* the messages of client c on the waitlist of s
Waiting(s, c) ==
  {i \in 1 .. Len(s.maybe_wait_for_quorum) : s.maybe_wait_for_quorum[i].src = c}

InQuorumNow(s) == s.state \in {STATE_LEADER, STATE_PEON} /\ ~s.exited_quorum

\* the request x, taken from the waitlist, went the way of its type:
\* answered here, or forwarded to the leader under an entry of the
\* table unless it is marked as forwarded before
Handled(s, x) ==
  IF is_leader(s) \/ x.op = MSG_MON_COMMAND
    THEN <<x.src, Ack(x.op), {}>> \in sent'
  ELSE IF x.session_mon >= 0 THEN TRUE
    ELSE \E rr \in s.routed_requests :
           rr.client = x.src /\ rr.request_bl = encode_message(x)

C15_GateBypassed ==
  [][/\ \A tid \in 0 .. MaxTid :
          /\ Running(Self)
          /\ IsStep(ms_dispatch(mon[Self],
                                From(MRoute(tid, Reply(Request(Blank, MSG_LOG, -1))),
                                     LeaderPeer)))
          /\ mon[Self].exited_quorum /\ mon[Self].sessions[LeaderPeer].priv # "open"
          => /\ mon'[Self].sessions[LeaderPeer].priv = "open"
             /\ mon'[Self].maybe_wait_for_quorum = mon[Self].maybe_wait_for_quorum
     /\ \A c \in Clients, op \in {CEPH_MSG_AUTH, MSG_MON_COMMAND} :
          /\ Running(Self)
          /\ IsStep(ms_dispatch(mon[Self], Request(c, op, -1)))
          /\ mon[Self].exited_quorum /\ mon[Self].sessions[c].priv # "open"
          => /\ mon'[Self].sessions[c].priv = "open"
             /\ mon'[Self].maybe_wait_for_quorum = mon[Self].maybe_wait_for_quorum
             /\ mon'[Self].connected[c] = mon[Self].connected[c]]_vars

\* the states in which the handlers of this monitor call bootstrap:
\* init, probe_timeout, a Paxos message of a newer epoch, and
\* handle_probe_reply after it took the map of the reply
BootstrapCalls ==
  {init_paxos([s1 EXCEPT !.started = TRUE]) :
     s1 \in {mon[Self], store_clear(mon[Self])}}
    \cup {mon[Self], [mon[Self] EXCEPT !.probe_timeout_event = FALSE]}
    \cup {[mon[Self] EXCEPT !.monmap = mp] : mp \in Maps}

\* C16: when bootstrap runs on a monitor whose peer map has this monitor
\* as its only member, the monitor is Leader with quorum {0} at the end
\* of that step, no OP_PROBE was sent and no probe timeout is armed
C16_SingletonSelfElects ==
  [][\A x \in BootstrapCalls :
       IsStep(bootstrap(x)) /\ x.monmap.members = {Self}
         => /\ mon'[Self].state = STATE_LEADER
            /\ mon'[Self].quorum = {0}
            /\ mon'[Self].rank = 0 /\ mon'[Self].leader = 0
            /\ mon'[Self].failed = "none"
            /\ ~mon'[Self].probe_timeout_event
            /\ \A y \in sent' : y[2] # OP_PROBE
            /\ net' = net]_vars

\* the monitor was probing over a map of several members with its probe
\* timeout armed, took the map of a probe reply that holds this monitor
\* alone, and is Leader of the quorum {0}
C16_Witness ==
  /\ mon[Self].started
  /\ mon[Self].monmap = [epoch |-> MaxEpoch, members |-> {Self}]
  /\ mon[Self].state = STATE_LEADER
  /\ mon[Self].quorum = {0}
  /\ ~mon[Self].probe_timeout_event
  /\ ~mon[Self].has_ever_joined
  /\ sent = {}

\* the states sync_timeout leaves when the provider timeout of this
\* requester fires
ProviderTimeouts ==
  {sync_timeout(mon[Self], mon[Self].sync_provider.entity, pick) :
     pick \in sync_timeout_picks(mon[Self], mon[Self].sync_provider.entity)}

\* this monitor is a requester that waits for a chunk, in a map of two
RequesterOfTwo ==
  /\ Running(Self)
  /\ mon[Self].state = STATE_SYNCHRONIZING
  /\ mon[Self].sync_provider.timeout = "sync"
  /\ Cardinality(mon[Self].monmap.members) = 2

ReplyResults(joined) ==
  {handle_probe_reply(mon[Self], From(msg, src)) :
     src \in Peers, msg \in {x \in MapReplies : x.has_ever_joined = joined}}

C19_MapEpochNeverDecreases ==
  [][\A s2 \in ReplyResults(TRUE) \cup ReplyResults(FALSE) :
       Running(Self) /\ IsStep(s2)
         => mon'[Self].monmap.epoch >= mon[Self].monmap.epoch]_vars

\* the requester an OP_START speaks for
StartOther(m) == IF FLAG_REPLY_TO \in m.flags THEN m.reply_to ELSE m.src

\* the OP_START messages that may reach this monitor, with their sender
StartInputs == {From(msg, src) : src \in Peers, msg \in SyncInputs(OP_START)}

\* this monitor handles an OP_START itself and tracks its requester
TracksStarter(m) ==
  /\ Running(Self)
  /\ is_leader(mon[Self]) \/ mon[Self].quorum = {}
  /\ StartOther(m) \in mon[Self].trim_timeouts

\* C20: an OP_START for a requester that this monitor tracks in
\* SYNC_STATE_START changes nothing and sends nothing: the trim timeout
\* of the requester, trim_timeouts, sync_entities_states, sync_role and
\* the trim-disable state stay as they are; an OP_START for a requester
\* it tracks in another state drops that session and answers with
\* OP_START_REPLY, either accepting the requester afresh or telling it to
\* retry
C20_StartWhileTrackedIsStray ==
  \A m \in StartInputs, should_trim \in BOOLEAN :
    LET other == StartOther(m)
        s2 == handle_sync_start(mon[Self], m, should_trim)
    IN TracksStarter(m) /\ (should_trim => mon[Self].quorum # {})
         => IF mon[Self].sync_entities_states[other] = SYNC_STATE_START
              THEN /\ s2 = mon[Self]
                   /\ s2.out = <<>>
              ELSE /\ Len(s2.out) = 1
                   /\ s2.out[1].dst = other
                   /\ s2.out[1].msg.op = OP_START_REPLY
                   /\ \/ /\ s2.out[1].msg.flags = {}
                         /\ other \in s2.trim_timeouts
                         /\ s2.sync_entities_states[other] = SYNC_STATE_START
                         /\ SYNC_ROLE_LEADER \subseteq s2.sync_role
                         /\ is_trim_disabled(s2)
                      \/ /\ s2.out[1].msg.flags = {FLAG_RETRY}
                         /\ other \notin s2.trim_timeouts
                         /\ s2.sync_entities_states[other] = "absent"

\* the monitor tracks two requesters in SYNC_STATE_START, and the last
\* thing it handled, an OP_START of one of them, made it send nothing
C20_Witness ==
  /\ Running(Self)
  /\ is_leader(mon[Self])
  /\ Cardinality(mon[Self].trim_timeouts) = 2
  /\ \A e \in mon[Self].trim_timeouts :
       mon[Self].sync_entities_states[e] = SYNC_STATE_START
  /\ SYNC_ROLE_LEADER \subseteq mon[Self].sync_role
  /\ sent = {}


\* the messages a handler sent before it made call c: none of them is a
\* request sent again, a forwarded request or an answer to a client
OnlyAbortsBefore(s2, c) ==
  \A j \in 1 .. c.sent : s2.out[j].msg.op = OP_ABORT

\* C21: on every entry to Leader or Peon the election is resolved first
\* (state, leader and quorum are set), then the Log is initialised in
\* that role, then election_finished is called on the services, and only
\* then the waitlist is run and the outstanding routed requests are sent
\* again: when the Log and the services are called the waitlist is as it
\* was and nothing but sync aborts has been sent
C21_LogInitBeforeFlushAndResend ==
  (mon[Self].started /\ mon[Self].failed = "none")
    => \A s2 \in ElectionResults :
         /\ Len(s2.calls) = 2
         /\ s2.calls[1].call
              = (IF s2.state = STATE_LEADER THEN "leader_init" ELSE "peon_init")
         /\ s2.calls[2].call = "election_finished"
         /\ s2.state \in {STATE_LEADER, STATE_PEON}
         /\ \A i \in 1 .. 2 :
              /\ s2.calls[i].state = s2.state
              /\ s2.calls[i].leader = s2.leader
              /\ s2.calls[i].quorum = s2.quorum
              /\ s2.calls[i].waiting = Len(mon[Self].maybe_wait_for_quorum)
              /\ OnlyAbortsBefore(s2, s2.calls[i])
         /\ s2.maybe_wait_for_quorum = <<>>
         /\ \A rr \in mon[Self].routed_requests :
              ~rr.session.closed
                => \E j \in (s2.calls[2].sent + 1) .. Len(s2.out) :
                     /\ s2.out[j].msg.op = MSG_FORWARD
                     /\ s2.out[j].msg.tid = rr.tid

\* the monitor won an election with a request routed and a client's
\* message on the waitlist: in that one step the client was answered and
\* the routed request went out again, to the monitor itself
C21_Witness ==
  /\ mon[Self].state = STATE_LEADER
  /\ mon[Self].maybe_wait_for_quorum = <<>>
  /\ \E rr \in mon[Self].routed_requests : ~rr.session.closed
  /\ <<Self, MSG_FORWARD, {}>> \in sent
  /\ \E c \in Clients : \E x \in sent : x[1] = c /\ x[2] = Ack(MSG_LOG)

\* ------------------------------------------ the MMonSync wire format
\* the ops the dispatcher of Monitor.cc handles
SyncOps ==
  {OP_START, OP_START_REPLY, OP_HEARTBEAT, OP_HEARTBEAT_REPLY, OP_FINISH,
   OP_START_CHUNKS, OP_CHUNK, OP_CHUNK_REPLY, OP_FINISH_REPLY, OP_ABORT}

\* a key of the store: pair<string,string>, prefix and key
SyncKeys == {<<0, 0>>, <<1, 2>>}

\* the MMonSync messages a monitor may build: every field the handlers of
\* Monitor.cc write, over small values
SyncMessages ==
  [op : SyncOps, flags : SUBSET {FLAG_LAST, FLAG_RETRY, FLAG_REPLY_TO},
   version : 0 .. 1, chunk_bl : {EmptyData, FullData},
   first_key : SyncKeys, last_key : SyncKeys,
   crc : 0 .. 1, reply_to : {Blank, Self}]

\* the message the messenger constructs before it decodes into it
EmptySync ==
  [op |-> 0, flags |-> {}, version |-> 0, chunk_bl |-> EmptyData,
   first_key |-> <<0, 0>>, last_key |-> <<0, 0>>, crc |-> 0,
   reply_to |-> Blank]

\* MMonSync::encode_payload: the fields it appends to the payload, in order
encode_payload(m) ==
  <<m.op, m.flags, m.version, m.chunk_bl,
    m.first_key[1], m.first_key[2], m.last_key[1], m.last_key[2]>>

\* MMonSync::decode_payload: the fields it reads from the payload, in order
decode_payload_of(p) ==
  [EmptySync EXCEPT !.op = p[1], !.flags = p[2], !.version = p[3],
                    !.chunk_bl = p[4], !.first_key = <<p[5], p[6]>>,
                    !.last_key = <<p[7], p[8]>>]

\* a monitor has built one message for its leading peer
CodecInit ==
  /\ mon = [m \in Mons |-> Monitor(m, FullData)]
  /\ net = [a \in Mons |-> [b \in Mons |-> <<>>]]
  /\ \E m \in SyncMessages : sent = {m}
  /\ events = 1

\* the messenger of the sender encodes the message and puts the payload
\* on the wire
CodecEncode ==
  /\ events = 1
  /\ \E m \in sent : net' = [net EXCEPT ![Self][LeaderPeer] = <<encode_payload(m)>>]
  /\ events' = 0
  /\ UNCHANGED <<mon, sent>>

\* the messenger of the receiver takes the payload off the wire and
\* decodes it into the message it queues for dispatch
CodecDecode ==
  /\ net[Self][LeaderPeer] # <<>>
  /\ net' = [net EXCEPT ![Self][LeaderPeer] = <<>>,
                        ![LeaderPeer][LeaderPeer] =
                           <<decode_payload_of(Head(net[Self][LeaderPeer]))>>]
  /\ UNCHANGED <<mon, sent, events>>

CodecNext == CodecEncode \/ CodecDecode

CodecSpec == CodecInit /\ [][CodecNext]_vars

\* C22: encoding an MMonSync and decoding the payload yields the message
\* that was built, in every field the sync protocol uses (op, flags,
\* version, chunk bytes, first_key, last_key, crc, reply_to), for every op
C22_SyncRoundTrip ==
  \A m \in sent :
    \A i \in 1 .. Len(net[LeaderPeer][LeaderPeer]) :
      net[LeaderPeer][LeaderPeer][i] = m

\* the fields the payload carries do come back as they were built
C22_PayloadFieldsRoundTrip ==
  \A m \in sent :
    \A i \in 1 .. Len(net[LeaderPeer][LeaderPeer]) :
      net[LeaderPeer][LeaderPeer][i]
        = [m EXCEPT !.crc = 0, !.reply_to = Blank]

\* --------------------------------------- starting over a marked store
\* Monitor::_sync_force: the store is marked for a sync at the next start
sync_force(s) == [s EXCEPT !.store.force_sync = TRUE]

\* the process ends and a monitor is constructed again over its store
\* and its map
restarted(s) ==
  [Monitor(s.id, s.store.data) EXCEPT !.store = s.store, !.monmap = s.monmap]

\* the stores a monitor may be started over: up to date, behind or empty,
\* marked by a sync that was under way or by a "sync force", or not
MarkedStores ==
  [in_sync : BOOLEAN, force_sync : BOOLEAN,
   data : {FullData, StaleData, EmptyData}]

RestartInit ==
  /\ \E st \in MarkedStores :
       mon = [m \in Mons |->
                IF m = Self
                  THEN [Monitor(m, st.data) EXCEPT !.store = st]
                ELSE Monitor(m, FullData)]
  /\ net = [a \in Mons |-> [b \in Mons |-> <<>>]]
  /\ sent = {}
  /\ events = 0

\* the command "sync force"
DoSyncForce == Running(Self) /\ Step(Self, sync_force(mon[Self]), net)

DoRestart ==
  /\ mon[Self].started
  /\ mon' = [mon EXCEPT ![Self] = restarted(mon[Self])]
  /\ net' = [a \in Mons |-> [b \in Mons |->
               IF Self \in {a, b} THEN <<>> ELSE net[a][b]]]
  /\ sent' = {}
  /\ UNCHANGED events

RestartNext ==
  \/ DoStart(Self)
  \/ EnvProbeReply(ProbeReplies)
  \/ DoProbeTimeout(Self, 0)
  \/ EnvSyncStartReply
  \/ DoSyncStartReplyTimeout(Self, 0)
  \/ DoSyncForce
  \/ DoRestart

RestartSpec == RestartInit /\ [][RestartNext]_vars

\* C23: init clears every sync-target prefix, and the markers with them,
\* before the Log is initialised when the store is marked in_sync or
\* force_sync: the Log then reads its versions from the cleared store;
\* when neither marker is set init clears nothing
C23_InitClearsMarkedStoreOnly ==
  [][(~mon[Self].started /\ IsStep(init(mon[Self])))
       => /\ IF mon[Self].store.in_sync \/ mon[Self].store.force_sync
               THEN mon'[Self].store = EmptyStore
             ELSE mon'[Self].store = mon[Self].store
          /\ mon'[Self].first_committed = mon'[Self].store.data[KeyFirstCommitted]
          /\ mon'[Self].last_committed = mon'[Self].store.data[KeyLastCommitted]]_vars

\* a monitor that had data and was told "sync force" was started again:
\* it runs over an empty store and its Log has no version
C23_Witness ==
  /\ mon[Self].started /\ mon[Self].state = STATE_PROBING
  /\ mon[Self].has_ever_joined
  /\ mon[Self].store = EmptyStore
  /\ mon[Self].last_committed = 0
  /\ mon[Self].probe_timeout_event

\* ------------------------------------------- command allow-lists
\* the longest command and the longest allow-list, in tokens, and the
\* most allow-lists a session holds
MaxTokens == 2

MaxAllowLists == 2

\* the words of a command, and the tokens of an allow-list
Words == {"a", "b"}

AllowTokens == Words \cup {"*", "..."}

\* the sequences of at most n elements of S
SeqUpTo(S, n) == UNION {[1 .. k -> S] : k \in 0 .. n}

RECURSIVE allowed_scan(_, _, _, _)
\* Monitor::_allowed_command, the inner loop over one allow-list p: q is
\* the position in p and i the position in cmd, both counted from 0; the
\* value is where the loop stops
allowed_scan(p, cmd, q, i) ==
  IF ~(q # Len(p) /\ i < Len(cmd)) THEN <<q, i>>
  ELSE IF p[q + 1] = "*" THEN allowed_scan(p, cmd, q + 1, i + 1)
  ELSE IF p[q + 1] = "..." THEN allowed_scan(p, cmd, q + 1, (Len(cmd) - 1) + 1)
  ELSE IF p[q + 1] # cmd[i + 1] THEN <<q, i>>
  ELSE allowed_scan(p, cmd, q + 1, i + 1)

\* Monitor::_allowed_command over the allow-lists of a session
allowed_command(cmd_allow, cmd) ==
  \E k \in 1 .. Len(cmd_allow) :
    allowed_scan(cmd_allow[k], cmd, 0, 0) = <<Len(cmd_allow[k]), Len(cmd)>>

RECURSIVE Matches(_, _)
\* an allow-list matches a command: a word matches an equal word, "*"
\* matches one token, "..." matches what is left of the command, and both
\* are used up together
Matches(p, cmd) ==
  IF p = <<>> THEN cmd = <<>>
  ELSE IF Head(p) = "..." THEN Matches(Tail(p), <<>>)
  ELSE IF cmd = <<>> THEN FALSE
  ELSE IF Head(p) = "*" THEN Matches(Tail(p), Tail(cmd))
  ELSE Head(p) = Head(cmd) /\ Matches(Tail(p), Tail(cmd))

\* a command has come in over a session that holds some allow-lists
CommandInit ==
  /\ mon = [m \in Mons |-> Monitor(m, FullData)]
  /\ \E cmd_allow \in SeqUpTo(SeqUpTo(AllowTokens, MaxTokens), MaxAllowLists),
        cmd \in SeqUpTo(Words, MaxTokens) :
       net = [a \in Mons |-> [b \in Mons |->
                IF a = Self /\ b = Self
                  THEN <<[op |-> MSG_MON_COMMAND, cmd |-> cmd,
                          cmd_allow |-> cmd_allow]>>
                ELSE <<>>]]
  /\ sent = {}
  /\ events = 0

\* Monitor::handle_command computes access_cmd for the command
DoAllowedCommand ==
  /\ net[Self][Self] # <<>>
  /\ LET m == Head(net[Self][Self])
     IN sent' = {[cmd |-> m.cmd, cmd_allow |-> m.cmd_allow,
                  access_cmd |-> allowed_command(m.cmd_allow, m.cmd)]}
  /\ net' = [net EXCEPT ![Self][Self] = Tail(@)]
  /\ UNCHANGED <<mon, events>>

CommandNext == DoAllowedCommand

CommandSpec == CommandInit /\ [][CommandNext]_vars

\* C24: _allowed_command is true exactly when some allow-list of the
\* session matches the whole command: a word matches an equal word, "*"
\* one token, "..." the rest of the command, the allow-list and the
\* command used up together; also for an empty command and for a "..."
\* with no token left
C24_AllowedIffMatches ==
  \A x \in sent :
    x.access_cmd
      <=> \E k \in 1 .. Len(x.cmd_allow) : Matches(x.cmd_allow[k], x.cmd)

\* whatever _allowed_command lets through is matched by an allow-list
C24_AllowedOnlyIfMatches ==
  \A x \in sent :
    x.access_cmd
      => \E k \in 1 .. Len(x.cmd_allow) : Matches(x.cmd_allow[k], x.cmd)

\* the states the requester's abort leaves: after OP_ABORT from the peer
\* recorded as sync leader, after the timeout of the start reply and
\* after the timeout of the finish reply
RequesterAborts ==
  {handle_sync_abort(mon[Self], From(MMonSync(OP_ABORT), src)) :
     src \in {p \in Peers : /\ mon[Self].sync_role = SYNC_ROLE_REQUESTER
                            /\ mon[Self].sync_leader.set
                            /\ mon[Self].sync_leader.entity = p}}
    \cup {sync_start_reply_timeout(mon[Self]) :
            x \in {y \in {1} : mon[Self].sync_leader.timeout = "start_reply"}}
    \cup {sync_finish_reply_timeout(mon[Self]) :
            x \in {y \in {1} : mon[Self].sync_leader.timeout = "finish_reply"}}

\* C25: when the requester gets OP_ABORT from the peer it has as sync
\* leader, or its start-reply or finish-reply timeout fires, it ends in
\* Probing with sync role and phase cleared, sync_leader and
\* sync_provider dropped and their timers cancelled, every sync-target
\* prefix of the store empty, and OP_ABORT sent to the provider if one
\* was recorded
C25_RequesterAbortRestarts ==
  Running(Self)
    => \A s2 \in RequesterAborts :
         /\ s2.failed = "none"
         /\ s2.state = STATE_PROBING
         /\ s2.sync_role = SYNC_ROLE_NONE
         /\ s2.sync_state = SYNC_STATE_NONE
         /\ s2.sync_leader = NullLeader
         /\ s2.sync_provider = NullProvider
         /\ s2.store = EmptyStore
         /\ mon[Self].sync_provider.set
              => \E i \in 1 .. Len(s2.out) :
                   /\ s2.out[i].dst = mon[Self].sync_provider.entity
                   /\ s2.out[i].msg.op = OP_ABORT

\* as long as the monitor is still synchronizing and nothing but a
\* requester when the abort comes, it does restart: it probes again over
\* an empty store
C25_AbortOfPlainRequester ==
  (/\ Running(Self) /\ mon[Self].state = STATE_SYNCHRONIZING
   /\ mon[Self].sync_role = SYNC_ROLE_REQUESTER)
    => \A s2 \in RequesterAborts :
         /\ s2.failed = "none"
         /\ s2.state = STATE_PROBING
         /\ s2.sync_role = SYNC_ROLE_NONE
         /\ s2.sync_leader = NullLeader
         /\ s2.sync_provider = NullProvider
         /\ s2.store = EmptyStore

\* the probe replies that report a quorum, as they come from a peer
QuorumReplies ==
  {From(msg, src) : src \in Peers,
                    msg \in {r \in MapReplies \cup ProbeReplies : r.quorum # {}}}

\* what handle_probe_reply did, read off the state it leaves
Synced(s2) == s2.state = STATE_SYNCHRONIZING

Elected(s2) == s2.state = STATE_ELECTING

Joined(s2) == \E i \in 1 .. Len(s2.out) : s2.out[i].msg.op = MSG_MON_JOIN

\* the reply's map replaces the monitor's own
TakesMap(s, m) ==
  /\ m.monmap # s.monmap /\ m.has_ever_joined
  /\ (m.monmap.epoch > s.monmap.epoch \/ ~s.has_ever_joined)

\* on reply m the monitor in state s does exactly one of three things:
\* a sync when the peer's last version is more than paxos_max_join_drift
\* ahead of its own; otherwise an election when it is in the map, and an
\* MMonJoin to a member of the quorum when it is not
OneOfThree(s, m) ==
  LET s2 == handle_probe_reply(s, m)
      ahead == m.paxos_last_version > get_version(s) + paxos_max_join_drift
  IN /\ s2.failed = "none"
     /\ Synced(s2) <=> ahead
     /\ ~ahead => (Elected(s2) <=> Self \in s.monmap.members)
     /\ ~ahead => (Joined(s2) <=> Self \notin s.monmap.members)
     /\ Cardinality({x \in {1, 2, 3} : \/ x = 1 /\ Synced(s2)
                                       \/ x = 2 /\ Elected(s2)
                                       \/ x = 3 /\ Joined(s2)}) = 1

\* C26: a probing monitor that gets a probe reply reporting a quorum,
\* with a map it has no reason to take, starts a sync exactly when the
\* peer's last version is more than paxos_max_join_drift ahead of its
\* own; otherwise it starts an election when it is in the map and sends
\* MMonJoin when it is not; it does exactly one of the three
C26_SyncElectOrJoin ==
  (Running(Self) /\ is_probing(mon[Self]))
    => \A m \in QuorumReplies : ~TakesMap(mon[Self], m) => OneOfThree(mon[Self], m)

\* a probing monitor that has no part in any sync does do exactly one of
\* the three
C26_SyncElectOrJoinWithoutSyncRole ==
  (Running(Self) /\ is_probing(mon[Self]) /\ mon[Self].sync_role = SYNC_ROLE_NONE)
    => \A m \in QuorumReplies : ~TakesMap(mon[Self], m) => OneOfThree(mon[Self], m)

\* the probe replies that report no quorum, whose map the monitor does
\* not take and whose versions overlap with its own
OverlappingReplies ==
  {m \in {From(msg, src) : src \in Peers,
                           msg \in {r \in MapReplies \cup ProbeReplies : r.quorum = {}}} :
     /\ ~TakesMap(mon[Self], m)
     /\ ~(m.paxos_first_version > get_version(mon[Self]))
     /\ ~(get_first_committed(mon[Self]) > m.paxos_last_version)}

\* the monitor counts the sender of m if the map has it, and never a
\* peer the map does not have; it starts an election exactly when the
\* count has reached need and it is itself among those counted
CountsToNeed(s, m, need) ==
  LET s2 == handle_probe_reply(s, m)
  IN /\ s2.outside_quorum
          = s.outside_quorum \cup ({m.src} \cap s.monmap.members)
     /\ Elected(s2) <=> /\ Cardinality(s2.outside_quorum) >= need
                        /\ Self \in s2.outside_quorum

\* C27: on probe replies that report no quorum and whose versions
\* overlap, an election starts when outside_quorum has reached
\* ceil(n/2) + 1 members of the n in the map and holds this monitor, and
\* not before; a peer that is not in the map is never counted
C27_ElectionAtCeilHalfPlusOne ==
  (Running(Self) /\ is_probing(mon[Self]))
    => \A m \in OverlappingReplies :
         CountsToNeed(mon[Self], m,
                      ((Cardinality(mon[Self].monmap.members) + 1) \div 2) + 1)

\* C27, with the count the code needs: an election starts when
\* outside_quorum has reached floor(n/2) + 1 members, a majority of the
\* map, and holds this monitor, and not before; a peer that is not in the
\* map is never counted
C27_ElectionAtMajority ==
  (Running(Self) /\ is_probing(mon[Self]))
    => \A m \in OverlappingReplies :
         CountsToNeed(mon[Self], m,
                      (Cardinality(mon[Self].monmap.members) \div 2) + 1)

\* in a map of three the monitor has counted itself and one peer, two of
\* three, and is electing
C27_Witness ==
  /\ mon[Self].state = STATE_ELECTING
  /\ Cardinality(mon[Self].monmap.members) = 3
  /\ Cardinality(mon[Self].outside_quorum) = 2
  /\ Self \in mon[Self].outside_quorum

\* handle_sync_start took the requester of m on: it is registered in
\* trim_timeouts in phase START, the SyncLeader bit is set, trimming is
\* disabled and the reply carries no flag
TakenOn(s2, m) ==
  /\ StartOther(m) \in s2.trim_timeouts
  /\ s2.sync_entities_states[StartOther(m)] = SYNC_STATE_START
  /\ SYNC_ROLE_LEADER \subseteq s2.sync_role
  /\ is_trim_disabled(s2)
  /\ \E i \in 1 .. Len(s2.out) :
       /\ s2.out[i].dst = StartOther(m)
       /\ s2.out[i].msg.op = OP_START_REPLY
       /\ s2.out[i].msg.flags = {}

\* handle_sync_start passed m on to the leader in the requester's name
\* and left the monitor as it was
PassedOn(s, s2, m) ==
  /\ Len(s2.out) = 1
  /\ s2.out[1].dst = get_inst(s.monmap, s.leader)
  /\ s2.out[1].msg.op = OP_START
  /\ FLAG_REPLY_TO \in s2.out[1].msg.flags
  /\ s2.out[1].msg.reply_to = m.src
  /\ [s2 EXCEPT !.out = <<>>] = s

\* C28: only the elected leader acts as sync leader: a monitor takes a
\* requester on (trim_timeouts, SyncLeader bit, trimming disabled) only
\* while its state is Leader; a member of the quorum that is not the
\* leader passes OP_START on to the leader with REPLY_TO set to the
\* sender and changes none of its own sync state
C28_OnlyLeaderTakesRequesters ==
  Running(Self)
    => \A m \in StartInputs, should_trim \in BOOLEAN :
         (should_trim => mon[Self].quorum # {})
           => LET s2 == handle_sync_start(mon[Self], m, should_trim)
              IN /\ TakenOn(s2, m) => is_leader(mon[Self])
                 /\ (~is_leader(mon[Self]) /\ mon[Self].quorum # {})
                      => PassedOn(mon[Self], s2, m)

\* a member of the quorum that is not the leader does pass every OP_START
\* on and keeps its own sync state
C28_PeonPassesOn ==
  (Running(Self) /\ ~is_leader(mon[Self]) /\ mon[Self].quorum # {})
    => \A m \in StartInputs, should_trim \in BOOLEAN :
         PassedOn(mon[Self], handle_sync_start(mon[Self], m, should_trim), m)

\* the monitor handles the OP_START m itself, not as a stray one, and
\* the Log is trimming or the trim-enable timer is pending
MustRetry(s, m, should_trim) ==
  /\ is_leader(s) \/ s.quorum = {}
  /\ ~(StartOther(m) \in s.trim_timeouts
         /\ s.sync_entities_states[StartOther(m)] = SYNC_STATE_START)
  /\ (s.quorum # {} /\ should_trim) \/ s.trim_enable_timer

\* C29: a sync leader that gets OP_START while the Log is trimming or a
\* trim-enable timer is pending answers OP_START_REPLY with RETRY and
\* takes on nothing for the requester: afterwards the requester is not in
\* trim_timeouts and has no trim timeout, trim_disable was not called,
\* and the SyncLeader bit is set only if another requester is still
\* tracked
C29_RetryTakesNoObligation ==
  Running(Self)
    => \A m \in StartInputs, should_trim \in BOOLEAN :
         ((should_trim => mon[Self].quorum # {}) /\ MustRetry(mon[Self], m, should_trim))
           => LET s2 == handle_sync_start(mon[Self], m, should_trim)
                  other == StartOther(m)
              IN /\ Len(s2.out) = 1
                 /\ s2.out[1].dst = other
                 /\ s2.out[1].msg.op = OP_START_REPLY
                 /\ s2.out[1].msg.flags = {FLAG_RETRY}
                 /\ other \notin s2.trim_timeouts
                 /\ s2.n_trim_disable = mon[Self].n_trim_disable
                 /\ s2.trim_disabled = mon[Self].trim_disabled
                 /\ SYNC_ROLE_LEADER \subseteq s2.sync_role
                      => s2.trim_timeouts \ {other} # {}

\* C30: whenever bootstrap runs on a monitor that has ever joined a
\* quorum and whose address is not in the peer map, the monitor ends
\* instead of probing, on every path into bootstrap, also the first one
\* after a start, when the rank in memory is still unknown
C30_RemovedMonitorFencesItself ==
  [][\A x \in BootstrapCalls :
       (IsStep(bootstrap(x)) /\ x.has_ever_joined /\ Self \notin x.monmap.members)
         => mon'[Self].failed = "exit"]_vars

\* once the monitor knows a rank of its own, it does end when bootstrap
\* finds it out of the map
C30_FencesOnceRankKnown ==
  [][\A x \in BootstrapCalls :
       (/\ IsStep(bootstrap(x)) /\ x.has_ever_joined
        /\ Self \notin x.monmap.members /\ x.rank >= 0)
         => mon'[Self].failed = "exit"]_vars

\* the monitor had joined, took a map without itself and ended
C30_Fenced ==
  /\ mon[Self].failed = "exit"
  /\ mon[Self].has_ever_joined
  /\ Self \notin mon[Self].monmap.members

\* ------------------------------------------------ stray sync messages
\* the sync messages of one peer that the handlers may be given
StrayInputs ==
  {From(msg, src) :
     src \in Peers,
     msg \in UNION {SyncInputs(op) :
                      op \in {OP_START_REPLY, OP_CHUNK, OP_FINISH_REPLY,
                              OP_HEARTBEAT, OP_FINISH, OP_CHUNK_REPLY, OP_ABORT}}}

\* the message does not fit the role, the phase or the recorded peer of s
Stray(s, m) ==
  IF m.op = OP_START_REPLY
    THEN ~(s.sync_role = SYNC_ROLE_REQUESTER /\ s.sync_state = SYNC_STATE_START)
  ELSE IF m.op = OP_CHUNK
    THEN s.sync_state # SYNC_STATE_CHUNKS
           \/ ~(s.sync_provider.set /\ s.sync_provider.entity = m.src)
  ELSE IF m.op = OP_FINISH_REPLY
    THEN s.sync_state # SYNC_STATE_STOP
           \/ ~(s.sync_leader.set /\ s.sync_leader.entity = m.src)
  ELSE IF m.op \in {OP_HEARTBEAT, OP_FINISH}
    THEN m.src \notin s.trim_timeouts
  ELSE IF m.op = OP_CHUNK_REPLY
    THEN ~s.sync_entities[m.src].set
  ELSE /\ ~(s.sync_leader.set /\ s.sync_leader.entity = m.src)
       /\ ~s.sync_entities[m.src].set
       /\ m.src \notin s.trim_timeouts

\* Monitor::handle_sync for the ops that take no answer of the Log
handle_sync_of(s, m) ==
  IF m.op = OP_START_REPLY THEN handle_sync_start_reply(s, m)
  ELSE IF m.op = OP_CHUNK THEN handle_sync_chunk(s, m)
  ELSE IF m.op = OP_FINISH_REPLY THEN handle_sync_finish_reply(s, m)
  ELSE IF m.op = OP_HEARTBEAT THEN handle_sync_heartbeat(s, m)
  ELSE IF m.op = OP_FINISH THEN handle_sync_finish(s, m)
  ELSE IF m.op = OP_CHUNK_REPLY THEN handle_sync_chunk_reply(s, m)
  ELSE handle_sync_abort(s, m)

\* C31: a sync message that does not fit the receiver's role, phase or
\* recorded peer is dropped with no effect: the handler leaves every
\* field of the monitor as it was (state, role, phase, bookkeeping maps,
\* store, timers), sends nothing and the process goes on
C31_StrayDropped ==
  Running(Self) =>
    \A m \in StrayInputs :
      Stray(mon[Self], m) => handle_sync_of(mon[Self], m) = mon[Self]

\* the same for every stray message but an OP_HEARTBEAT
C31_StrayDroppedButHeartbeat ==
  Running(Self) =>
    \A m \in StrayInputs :
      (Stray(mon[Self], m) /\ m.op # OP_HEARTBEAT)
        => handle_sync_of(mon[Self], m) = mon[Self]

\* --------------------------------------------- timers across bootstrap
\* no timer of the sync roles is armed on s: start-reply, back-off,
\* heartbeat and finish-reply (sync_leader), provider timeout of the
\* requester (sync_provider), chunk timeouts of the provider, trim
\* timeouts and the trim-enable timer of the sync leader
NoSyncTimer(s) ==
  /\ s.sync_leader.timeout = "none"
  /\ s.sync_provider.timeout = "none"
  /\ \A e \in Entities : ~s.sync_entities[e].timeout
  /\ s.trim_timeouts = {}
  /\ ~s.trim_enable_timer

\* C32: after bootstrap, from any state, no timer armed before it can
\* still fire: the only timer armed at its end is the probe timeout that
\* bootstrap itself arms
C32_BootstrapCancelsTimers ==
  Running(Self) =>
    \A s2 \in {paxos_newer_epoch(mon[Self])} :
      s2.failed = "none" => NoSyncTimer(s2)

\* what bootstrap does cancel: every sync timer but the trim-enable timer
C32_BootstrapCancelsButTrimEnable ==
  Running(Self) =>
    \A s2 \in {paxos_newer_epoch(mon[Self])} :
      s2.failed = "none" => NoSyncTimer([s2 EXCEPT !.trim_enable_timer = FALSE])

\* the requester-side timers that are due on s, with what their callbacks
\* leave
RequesterTimerResults(s) ==
  (IF s.sync_leader.timeout = "start_reply"
     THEN {sync_start_reply_timeout(s)} ELSE {})
    \cup (IF s.sync_leader.timeout = "heartbeat_timeout"
            THEN {heartbeat_timeout(s)} ELSE {})
    \cup (IF s.sync_leader.timeout = "finish_reply"
            THEN {sync_finish_reply_timeout(s)} ELSE {})
    \cup (IF s.sync_provider.timeout = "sync"
            THEN {sync_timeout(s, s.sync_provider.entity, pick) :
                    pick \in sync_timeout_picks(s, s.sync_provider.entity) \ {Blank}}
            ELSE {})

\* no sync timer callback runs into a failed role or state assertion
C32_TimerCallbacksKeepAsserts ==
  Running(Self) =>
    \A s2 \in RequesterTimerResults(mon[Self]) : s2.failed = "none"

\* C33: in every reachable state the SyncLeader bit of sync_role is set
\* if and only if trim_timeouts is not empty
C33_LeaderBitIffTracking ==
  Running(Self) =>
    (SYNC_ROLE_LEADER \subseteq mon[Self].sync_role
       <=> mon[Self].trim_timeouts # {})

\* the half that the code keeps: a tracked requester implies the bit
C33_TrackingImpliesLeaderBit ==
  Running(Self) =>
    (mon[Self].trim_timeouts # {}
       => SYNC_ROLE_LEADER \subseteq mon[Self].sync_role)

\* ------------------------- one requester, served as leader and provider
\* the requesters this monitor tracks as sync leader and serves as
\* provider at once
ServedTwice(s) ==
  {e \in Peers : /\ e \in s.trim_timeouts
                 /\ s.sync_entities_states[e] = SYNC_STATE_START
                 /\ s.sync_entities[e].set}

\* the handler sent a message of the op to the entity
Answers(s2, op, e) ==
  /\ s2.failed = "none"
  /\ \E i \in 1 .. Len(s2.out) : s2.out[i].dst = e /\ s2.out[i].msg.op = op

\* C34: when a monitor is sync leader and provider for one requester,
\* provider cleanup leaves the sync-leader record of that requester
\* intact, so that its later OP_HEARTBEAT and OP_FINISH are answered, and
\* sync_finish leaves the provider session intact, so that its next
\* OP_CHUNK_REPLY is still served
C34_ProviderAndLeaderIndependent ==
  Running(Self) =>
    \A e \in ServedTwice(mon[Self]) :
      LET p == sync_provider_cleanup(mon[Self], e)
          f == sync_finish(mon[Self], e, FALSE)
      IN /\ e \in p.trim_timeouts
         /\ SYNC_ROLE_LEADER \subseteq p.sync_role
         /\ Answers(handle_sync_finish(p, From(MMonSync(OP_FINISH), e)),
                    OP_FINISH_REPLY, e)
         /\ (is_leader(p) \/ p.quorum = {})
              => Answers(handle_sync_heartbeat(p, From(MMonSync(OP_HEARTBEAT), e)),
                         OP_HEARTBEAT_REPLY, e)
         /\ f.sync_entities[e] = mon[Self].sync_entities[e]
         /\ SYNC_ROLE_PROVIDER \subseteq f.sync_role
         /\ \A m \in SyncInputs(OP_CHUNK_REPLY) :
              handle_sync_chunk_reply(f, From(m, e))
                = handle_sync_chunk_reply(mon[Self], From(m, e))

\* what each side does leave of the other: provider cleanup keeps the trim
\* timeout and the SyncLeader bit, sync_finish keeps the provider-side
\* entity and the Provider bit
C34_EachSideKeepsTheOthersEntity ==
  Running(Self) =>
    \A e \in ServedTwice(mon[Self]) :
      LET p == sync_provider_cleanup(mon[Self], e)
          f == sync_finish(mon[Self], e, FALSE)
      IN /\ e \in p.trim_timeouts
         /\ SYNC_ROLE_LEADER \subseteq p.sync_role
         /\ f.sync_entities[e] = mon[Self].sync_entities[e]
         /\ SYNC_ROLE_PROVIDER \subseteq f.sync_role

\* a requester is tracked and served at once
C34_Served ==
  Running(Self) /\ ServedTwice(mon[Self]) # {}

\* --------------------------------------------- the roles of a requester
\* the role is Requester alone, or holds no Requester bit
RequesterAlone(s) ==
  s.sync_role = SYNC_ROLE_REQUESTER \/ s.sync_role \cap SYNC_ROLE_REQUESTER = {}

\* C35: in every reachable state sync_role is exactly Requester or a
\* subset of {Provider, SyncLeader}: a monitor that holds the Requester
\* role holds no other sync role
C35_RequesterHoldsNoOtherRole ==
  Running(Self) => RequesterAlone(mon[Self])

\* an OP_START or OP_START_CHUNKS taken by a requester leaves its role
\* Requester alone
C35_StartLeavesRequesterAlone ==
  (Running(Self) /\ mon[Self].sync_role = SYNC_ROLE_REQUESTER) =>
    \A src \in Peers :
      /\ \A m \in SyncInputs(OP_START_CHUNKS) :
           RequesterAlone(handle_sync_start_chunks(mon[Self], From(m, src)))
      /\ \A m \in SyncInputs(OP_START) :
           RequesterAlone(handle_sync_start(mon[Self], From(m, src), FALSE))

\* the requester-side timers of a monitor whose role is Requester alone
\* and whose state is Synchronizing run into no failed assertion
C35_PlainRequesterTimersKeepAsserts ==
  (/\ Running(Self) /\ mon[Self].sync_role = SYNC_ROLE_REQUESTER
   /\ mon[Self].state = STATE_SYNCHRONIZING) =>
    \A s2 \in RequesterTimerResults(mon[Self]) : s2.failed = "none"

\* ------------------------------------------ sync_start from a probe reply
\* the probe replies of either branch, as they come from a peer
AnyReplies == {From(msg, src) : src \in Peers, msg \in ProbeReplies}

\* handle_probe_reply on reply m ends in sync_start: the monitor probes,
\* does not take the reply's map, and the peer is too far ahead (more
\* than the join drift for a peer in a quorum, past the monitor's last
\* version for a peer outside one)
CallsSyncStart(s, m) ==
  /\ is_probing(s)
  /\ ~TakesMap(s, m)
  /\ IF m.quorum # {}
       THEN get_version(s) + paxos_max_join_drift < m.paxos_last_version
       ELSE m.paxos_first_version > get_version(s)

\* the entry assertions of sync_start: no sync role and no sync phase
SyncStartEntry(s) ==
  s.sync_role = SYNC_ROLE_NONE /\ s.sync_state = SYNC_STATE_NONE

\* C36: whenever handle_probe_reply calls sync_start the entry assertions
\* of sync_start hold, so the call leaves a running requester
C36_SyncStartEntryHolds ==
  Running(Self) =>
    \A m \in AnyReplies :
      CallsSyncStart(mon[Self], m)
        => /\ SyncStartEntry(mon[Self])
           /\ handle_probe_reply(mon[Self], m).failed = "none"
           /\ handle_probe_reply(mon[Self], m).sync_role = SYNC_ROLE_REQUESTER

\* the entry assertions are exactly what decides: with them the call
\* leaves a running requester, without them the process ends
C36_EntryDecides ==
  Running(Self) =>
    \A m \in AnyReplies :
      CallsSyncStart(mon[Self], m)
        => (SyncStartEntry(mon[Self])
              <=> /\ handle_probe_reply(mon[Self], m).failed = "none"
                  /\ handle_probe_reply(mon[Self], m).sync_role = SYNC_ROLE_REQUESTER)

\* ------------------------------------------- the requester's reply timeouts
\* the requester waits for OP_START_REPLY or for OP_FINISH_REPLY
AwaitsReply(s) ==
  /\ s.state = STATE_SYNCHRONIZING
  /\ s.sync_role = SYNC_ROLE_REQUESTER
  /\ s.sync_state \in {SYNC_STATE_START, SYNC_STATE_STOP}

\* the timeout of the reply the phase waits for
ReplyTimeout(s) ==
  IF s.sync_state = SYNC_STATE_START THEN "start_reply" ELSE "finish_reply"

\* C37: while a requester waits for OP_START_REPLY (phase Start) or for
\* OP_FINISH_REPLY (phase Stop) the timeout of that reply is armed, and an
\* OP_HEARTBEAT_REPLY from any peer, the recorded leader included, leaves
\* it armed
C37_ReplyTimeoutStaysArmed ==
  (Running(Self) /\ AwaitsReply(mon[Self])) =>
    /\ mon[Self].sync_leader.timeout = ReplyTimeout(mon[Self])
    /\ \A src \in Peers :
         handle_sync_heartbeat_reply(
           mon[Self], From(MMonSync(OP_HEARTBEAT_REPLY), src)).sync_leader.timeout
           = ReplyTimeout(mon[Self])

\* an OP_HEARTBEAT_REPLY of a peer that is not the recorded leader leaves
\* the armed timeout alone
C37_OtherPeersReplyLeavesTimeout ==
  (Running(Self) /\ AwaitsReply(mon[Self])) =>
    \A src \in Peers \ {mon[Self].sync_leader.entity} :
      handle_sync_heartbeat_reply(
        mon[Self], From(MMonSync(OP_HEARTBEAT_REPLY), src)).sync_leader.timeout
        = mon[Self].sync_leader.timeout

\* no monitor waits for OP_FINISH_REPLY with the heartbeat interval armed
\* in place of the finish-reply timeout
C37_StopKeepsFinishReplyTimeout ==
  \A m \in Mons :
    (Running(m) /\ AwaitsReply(mon[m]) /\ mon[m].sync_state = SYNC_STATE_STOP)
      => mon[m].sync_leader.timeout = "finish_reply"

\* ------------------------------------------- picking a new provider
\* the draws of monmap->pick_random_mon() in one run of sync_timeout's
\* loop: 2 * monmap->size() draws, each any member of the map
PickSequences(s) ==
  [1 .. 2 * Cardinality(s.monmap.members) -> s.monmap.members]

\* the loop of sync_timeout over the draws: the first draw that is
\* neither this monitor nor the timed-out one, or Blank when the loop
\* runs out of draws
first_pick(picks, s, entity) ==
  IF \E i \in DOMAIN picks : picks[i] # s.id /\ picks[i] # entity
    THEN picks[Min({i \in DOMAIN picks : picks[i] # s.id /\ picks[i] # entity})]
    ELSE Blank

\* the requester's provider timeout is due, it has attempts left, and the
\* map holds a monitor other than itself and the provider that timed out
CanRetryElsewhere(s) ==
  /\ s.state = STATE_SYNCHRONIZING
  /\ s.sync_role = SYNC_ROLE_REQUESTER
  /\ s.sync_state = SYNC_STATE_CHUNKS
  /\ s.sync_provider.timeout = "sync"
  /\ s.sync_provider.attempts + 1 <= mon_sync_max_retries
  /\ s.monmap.members \ {s.id, s.sync_provider.entity} # {}

\* sync_timeout left the requester with a new provider and sent it
\* OP_START_CHUNKS with the last key received
StartedChunksElsewhere(s, s2) ==
  /\ s2.failed = "none"
  /\ s2.sync_provider.entity \in s.monmap.members \ {s.id, s.sync_provider.entity}
  /\ s2.sync_state = SYNC_STATE_CHUNKS
  /\ Len(s2.out) = 1
  /\ s2.out[1].dst = s2.sync_provider.entity
  /\ s2.out[1].msg.op = OP_START_CHUNKS
  /\ s2.out[1].msg.last_key = s.sync_provider.last_received_key

\* C38: when the provider timeout of a requester fires with attempts left
\* and another monitor in the map, sync_timeout picks such a monitor and
\* sends it OP_START_CHUNKS with last_received_key, whatever the random
\* draws are
C38_TimeoutFindsNewProvider ==
  (Running(Self) /\ CanRetryElsewhere(mon[Self])) =>
    \A picks \in PickSequences(mon[Self]) :
      StartedChunksElsewhere(
        mon[Self],
        sync_timeout(mon[Self], mon[Self].sync_provider.entity,
                     first_pick(picks, mon[Self], mon[Self].sync_provider.entity)))

\* with one draw that is another monitor, it does
C38_GoodDrawFindsNewProvider ==
  (Running(Self) /\ CanRetryElsewhere(mon[Self])) =>
    \A picks \in PickSequences(mon[Self]) :
      first_pick(picks, mon[Self], mon[Self].sync_provider.entity) # Blank
        => StartedChunksElsewhere(
             mon[Self],
             sync_timeout(mon[Self], mon[Self].sync_provider.entity,
                          first_pick(picks, mon[Self], mon[Self].sync_provider.entity)))

\* what the loop may end with is what the timeout step draws from
C38_LoopEndsAreThePicks ==
  (Running(Self) /\ mon[Self].sync_provider.timeout = "sync") =>
    {first_pick(picks, mon[Self], mon[Self].sync_provider.entity) :
       picks \in PickSequences(mon[Self])}
      = sync_timeout_picks(mon[Self], mon[Self].sync_provider.entity)

\* ------------------------------------------- one reply per routed request
\* the table of s holds an entry under the tid
HasEntry(s, tid) == \E rr \in s.routed_requests : rr.tid = tid

\* C39: an MRoute under a tid is passed on to the client only when the
\* table holds an entry under that tid, as one message to the session of
\* the entry, and takes the entry out; an MRoute that finds no entry
\* sends nothing and leaves the table alone; and a tid that was given out
\* and has no entry gets none again. So per routed request at most one
\* reply reaches the client, however often the reply arrives.
C39_AtMostOneReplyPerRequest ==
  [][/\ \A tid \in 1 .. MaxTid :
          \A s2 \in RouteResults(tid) :
            IF HasEntry(mon[Self], tid)
              THEN /\ Len(s2.out) = 1
                   /\ \E rr \in mon[Self].routed_requests :
                        rr.tid = tid /\ s2.out[1].dst = rr.session.inst
                   /\ s2.out[1].msg.op \notin {MSG_ROUTE, MSG_FORWARD}
                   /\ ~HasEntry(s2, tid)
              ELSE /\ s2.out = <<>>
                   /\ s2.routed_requests = mon[Self].routed_requests
     /\ \A tid \in 1 .. MaxTid :
          (tid <= mon[Self].routed_request_tid /\ ~HasEntry(mon[Self], tid))
            => ~HasEntry(mon'[Self], tid)]_vars

\* a peon forwarded a request under tid 1, an election came in between,
\* and the reply routed back under tid 1 was just sent to the client:
\* the entry is gone while the next request has not been forwarded yet
C39_Witness ==
  /\ mon[Self].state = STATE_PEON
  /\ mon[Self].routed_request_tid = 1
  /\ ~HasEntry(mon[Self], 1)
  /\ events <= MaxMsgs - 2
  /\ \E c \in Clients :
       /\ <<c, Ack(MSG_LOG), {}>> \in sent
       /\ mon[Self].sessions[c].priv = "open"
       /\ 1 \in mon[Self].sessions[c].routed_request_tids

\* ------------------------------------------- the force_sync marker
\* a monitor that syncs, may be told "sync force" at any time and may be
\* started again over the store it left
ForceNext ==
  \/ Next
  \/ DoSyncForce
  \/ DoRestart

ForceSpec == Init /\ [][ForceNext]_vars

\* the step is one of the running monitor: it was started and still is
RunningStep == mon[Self].started /\ mon'[Self].started

C40_SyncStartKeepsFlag ==
  [][(RunningStep /\ mon[Self].store.force_sync
        /\ mon[Self].sync_role # SYNC_ROLE_REQUESTER
        /\ mon'[Self].sync_role = SYNC_ROLE_REQUESTER)
       => mon'[Self].store.force_sync]_vars
====
